---- MODULE Spec2Model ----
(***************************************************************************)
(* Model of the stdio-to-HTTP JSON-RPC proxy of mcp-cross                  *)
(* (src/lib/http-proxy.js with the helpers of src/lib/jsonrpc-error.js).   *)
(*                                                                         *)
(* JavaScript runs each handler to its next await without interleaving,    *)
(* so every action below is one synchronous segment of the code: from the  *)
(* event that resumes it (an input line, the settling of a fetch promise,  *)
(* a timer, a signal) to the next await or return.                         *)
(*                                                                         *)
(* Spec       : the program, startHttpProxy() driving session.start().     *)
(* SpecApi    : a caller that uses the exported HTTPProxySession directly, *)
(*              awaiting each processLine() and calling stop(), as the     *)
(*              tests of the repository do.                                *)
(* SpecConfig : the program from the call of startHttpProxy(args, env).    *)
(* SpecLib    : one call of an exported function of the header parser, the *)
(*              URL validator or the JSON-RPC helpers.                     *)
(***************************************************************************)
EXTENDS Integers, Sequences, FiniteSets, TLC

(***************************************************************************)
(* Bounds of the model.                                                    *)
(***************************************************************************)
MaxLines == 2
MaxSignals == 2

(***************************************************************************)
(* JavaScript values.  A scalar is a tagged string: "undefined", "null",   *)
(* "num:<n>", "str:<s>", "bool:<b>"; "object" and "array" stand for any    *)
(* object or array used as a field value.                                  *)
(***************************************************************************)
NumVals == {"num:0", "num:7"}
StrVals == {"str:", "str:a", "str:2.0", "str:1.0", "str:ping"}
BoolVals == {"bool:true", "bool:false"}

TypeOf(v) ==
    IF v = "undefined" THEN "undefined"
    ELSE IF v \in NumVals THEN "number"
    ELSE IF v \in StrVals THEN "string"
    ELSE IF v \in BoolVals THEN "boolean"
    ELSE "object"

Falsy(v) == v \in {"undefined", "null", "num:0", "str:", "bool:false"}

\* a || null
OrNull(v) == IF Falsy(v) THEN "null" ELSE v

(***************************************************************************)
(* Parsed JSON documents: [t |-> "null" | "number" | "string" | "boolean"],*)
(* [t |-> "array", items |-> <<...>>] and                                  *)
(* [t |-> "object", jsonrpc, method, params, id] where an absent member    *)
(* reads as "undefined".                                                   *)
(***************************************************************************)
Obj(j, m, p, i) == [t |-> "object", jsonrpc |-> j, method |-> m, params |-> p, id |-> i]
Arr(items) == [t |-> "array", items |-> items]

\* obj.<member> for a value that is not null or undefined
Member(v, f) == IF v.t = "object" THEN v[f] ELSE "undefined"

(***************************************************************************)
(* src/lib/jsonrpc-error.js                                                *)
(***************************************************************************)
PARSE_ERROR == -32700
INVALID_REQUEST == -32600
INTERNAL_ERROR == -32603
TRANSPORT_ERROR == -32000
HTTP_ERROR == -32001

\* the default parameter id = null replaces an undefined argument
createErrorResponse(code, message, id, data) ==
    [kind |-> "error", code |-> code, message |-> message,
     id |-> IF id = "undefined" THEN "null" ELSE id, data |-> data]

parseError_InvalidRequest ==
    createErrorResponse(INVALID_REQUEST, "Invalid Request", "null", [details |-> "syntax"])

parseError == createErrorResponse(PARSE_ERROR, "Parse error: Invalid JSON", "null", [details |-> "syntax"])

invalidRequest(id, details) ==
    createErrorResponse(INVALID_REQUEST, "Invalid Request", id, [details |-> details])

internalError(id, message, data) == createErrorResponse(INTERNAL_ERROR, message, id, data)

fromHttpError(statusCode, statusText, id, body) ==
    createErrorResponse(HTTP_ERROR, "HTTP error", id,
                        [statusCode |-> statusCode, statusText |-> statusText, body |-> body])

\* messages of failures that contain the word 'certificate'
CertificateMessages == {<<"certificate has expired">>, <<"unable to verify the first certificate">>}

\* error: [name, message, code, causeCode], the message a tuple of its parts
\* and causeCode the code of error.cause, "undefined" without a cause
fromNetworkError(error, id) ==
    LET has(c) == error.code = c \/ error.causeCode = c
        r == IF has("ENOTFOUND") THEN <<"DNS resolution failed", "ENOTFOUND">>
             ELSE IF has("ECONNREFUSED") THEN <<"Connection refused", "ECONNREFUSED">>
             ELSE IF has("ETIMEDOUT") \/ error.name = "TimeoutError"
                  THEN <<"Request timeout", "ETIMEDOUT">>
             ELSE IF has("ECONNRESET") THEN <<"Connection reset", "ECONNRESET">>
             ELSE IF error.code = "CERT_HAS_EXPIRED" \/ error.message \in CertificateMessages
                  THEN <<"SSL/TLS certificate error", "CERT_ERROR">>
             ELSE <<"Network error", "undefined">>
    IN createErrorResponse(TRANSPORT_ERROR, r[1], id,
                           [originalError |-> error.message, errorCode |-> r[2]])

\* the result record {valid, error}; error is "" when valid
isValidRequest(obj) ==
    IF obj.t \notin {"object", "array"}
    THEN [valid |-> FALSE, error |-> "Request must be an object"]
    ELSE IF Member(obj, "jsonrpc") # "str:2.0"
    THEN [valid |-> FALSE, error |-> "Invalid or missing jsonrpc version"]
    ELSE IF TypeOf(Member(obj, "method")) # "string"
    THEN [valid |-> FALSE, error |-> "Invalid or missing method"]
    ELSE IF Member(obj, "params") # "undefined" /\ TypeOf(Member(obj, "params")) # "object"
    THEN [valid |-> FALSE, error |-> "params must be an object or array if present"]
    ELSE IF /\ Member(obj, "id") # "undefined"
            /\ Member(obj, "id") # "null"
            /\ TypeOf(Member(obj, "id")) # "string"
            /\ TypeOf(Member(obj, "id")) # "number"
    THEN [valid |-> FALSE, error |-> "id must be a string, number, or null"]
    ELSE [valid |-> TRUE, error |-> ""]

isBatchRequest(obj) == obj.t = "array"

NoValue == [kind |-> "none"]

(***************************************************************************)
(* Strings that are parsed character by character are sequences of         *)
(* one-character strings.                                                  *)
(***************************************************************************)
Upper == {"A", "B", "C", "D", "E", "F", "G", "H", "I", "J", "K", "L", "M",
          "N", "O", "P", "Q", "R", "S", "T", "U", "V", "W", "X", "Y", "Z"}
Lower == {"a", "b", "c", "d", "e", "f", "g", "h", "i", "j", "k", "l", "m",
          "n", "o", "p", "q", "r", "s", "t", "u", "v", "w", "x", "y", "z"}
Digit == {"0", "1", "2", "3", "4", "5", "6", "7", "8", "9"}

\* the characters String.prototype.trim() strips (those the inputs use)
WhiteSpace == {" ", "\t", "\r", "\n"}

RECURSIVE trimStart(_)
trimStart(s) == IF s # <<>> /\ Head(s) \in WhiteSpace THEN trimStart(Tail(s)) ELSE s

RECURSIVE trimEnd(_)
trimEnd(s) ==
    IF s # <<>> /\ s[Len(s)] \in WhiteSpace THEN trimEnd(SubSeq(s, 1, Len(s) - 1)) ELSE s

trim_StartOnly(s) == trimStart(s)

\* String.prototype.trim()
trim(s) == trimEnd(trimStart(s))

\* s.indexOf(c), counted from 1; 0 when c does not occur
indexOf(s, c) ==
    IF \E i \in 1..Len(s) : s[i] = c
    THEN CHOOSE i \in 1..Len(s) : s[i] = c /\ \A j \in 1..(i - 1) : s[j] # c
    ELSE 0

UpperCase == <<"A", "B", "C", "D", "E", "F", "G", "H", "I", "J", "K", "L", "M",
               "N", "O", "P", "Q", "R", "S", "T", "U", "V", "W", "X", "Y", "Z">>
LowerCase == <<"a", "b", "c", "d", "e", "f", "g", "h", "i", "j", "k", "l", "m",
               "n", "o", "p", "q", "r", "s", "t", "u", "v", "w", "x", "y", "z">>

\* String.prototype.toLowerCase(), for ASCII text
toLowerCase(s) ==
    [i \in 1..Len(s) |->
        IF s[i] \in Upper THEN LowerCase[CHOOSE k \in 1..26 : UpperCase[k] = s[i]] ELSE s[i]]

\* s.includes(sub)
includes(s, sub) == \E i \in 0..(Len(s) - Len(sub)) : SubSeq(s, i + 1, i + Len(sub)) = sub

\* the text of a character sequence
RECURSIVE Concat(_)
Concat(s) == IF s = <<>> THEN "" ELSE Head(s) \o Concat(Tail(s))

(***************************************************************************)
(* src/lib/header-parser.js                                                *)
(***************************************************************************)
\* HEADER_NAME_PATTERN: the characters of an RFC 7230 token (of its
\* punctuation, the apostrophe and the grave accent are not used by the inputs)
HEADER_NAME_CHARS ==
    Upper \cup Lower \cup Digit
    \cup {"!", "#", "$", "%", "&", "*", "+", ".", "^", "_", "|", "~", "-"}

\* ENV_VAR_PATTERN: the characters that start and continue a variable name
VarStart == Upper \cup Lower \cup {"_"}
VarChar == VarStart \cup Digit

\* the last index of the run of VarChar characters of s that starts at i
RECURSIVE varEnd(_, _)
varEnd(s, i) == IF i < Len(s) /\ s[i + 1] \in VarChar THEN varEnd(s, i + 1) ELSE i

\* the match of ENV_VAR_PATTERN at the start of s: its length (0 when there
\* is none) and the name captured.  "{" and "}" are each optional, so "${K",
\* "$K}" and "${K}" all match; a "$" not followed by a name does not.
matchEnvVar(s) ==
    LET brace == Len(s) >= 2 /\ s[2] = "{"
        first == IF brace THEN 3 ELSE 2
    IN IF s = <<>> \/ s[1] # "$" \/ first > Len(s) \/ s[first] \notin VarStart
       THEN [len |-> 0, name |-> <<>>]
       ELSE LET last == varEnd(s, first)
                close == last < Len(s) /\ s[last + 1] = "}"
            IN [len |-> IF close THEN last + 1 ELSE last, name |-> SubSeq(s, first, last)]

envValue_KeepsName(env, name) == IF name \in DOMAIN env THEN env[name] ELSE name

\* env[varName], the empty string when undefined; env is a function on the names it defines
envValue(env, name) == IF name \in DOMAIN env THEN env[name] ELSE <<>>

RECURSIVE expandEnvVars(_, _)
expandEnvVars(value, env) ==
    IF value = <<>> THEN <<>>
    ELSE LET m == matchEnvVar(value)
         IN IF m.len > 0
            THEN envValue(env, m.name) \o expandEnvVars(SubSeq(value, m.len + 1, Len(value)), env)
            ELSE <<Head(value)>> \o expandEnvVars(Tail(value), env)

isValidHeaderName(name) == name # <<>> /\ \A i \in 1..Len(name) : name[i] \in HEADER_NAME_CHARS

isValidHeaderValue_LFOnly(value) == \A i \in 1..Len(value) : value[i] # "\n"

isValidHeaderValue(value) == \A i \in 1..Len(value) : value[i] \notin {"\r", "\n"}

\* the result {success, header} or {success, error}; an error is the message
\* and the text it quotes
parseHeader(headerString, env) ==
    LET trimmedInput == trim(headerString)
        noColon == indexOf(trimmedInput, ":") = 0
        working == IF noColon THEN trim(expandEnvVars(trimmedInput, env)) ELSE trimmedInput
        colonIndex == indexOf(working, ":")
        name == trim(SubSeq(working, 1, colonIndex - 1))
        rawValuePortion == trim(SubSeq(working, colonIndex + 1, Len(working)))
        value == expandEnvVars(rawValuePortion, env)
        fails(msg, of) == [success |-> FALSE, error |-> [msg |-> msg, of |-> of]]
    IN IF headerString = <<>> \/ trimmedInput = <<>>
       THEN fails("Header string must be a non-empty string", <<>>)
       ELSE IF colonIndex = 0
       THEN fails("Invalid header format: missing colon separator", headerString)
       ELSE IF ~isValidHeaderName(name)
       THEN fails("Invalid header name", name)
       ELSE IF ~isValidHeaderValue(value)
       THEN fails("Invalid header value: contains forbidden characters (CRLF)", <<>>)
       ELSE [success |-> TRUE,
             header |-> [name |-> name, value |-> value,
                         originalValue |-> IF noColon THEN trimmedInput ELSE rawValuePortion]]

\* the unanchored test of the variable pattern in parseHeaders()
hasEnvVar(s) == \E i \in 1..Len(s) : matchEnvVar(SubSeq(s, i, Len(s))).len > 0

mapSet_KeepsFirst(map, name, value) ==
    IF \E i \in 1..Len(map) : map[i].name = name
    THEN map
    ELSE Append(map, [name |-> name, value |-> value])

\* Map.prototype.set on a Map kept as the sequence of its entries
mapSet(map, name, value) ==
    IF \E i \in 1..Len(map) : map[i].name = name
    THEN [i \in 1..Len(map) |-> IF map[i].name = name THEN [name |-> name, value |-> value] ELSE map[i]]
    ELSE Append(map, [name |-> name, value |-> value])

\* one iteration of the loop of parseHeaders(), lines 154-169: acc is
\* {headers, errors, warnings} so far, result what parseHeader() returned
parseHeadersStep(acc, result) ==
    IF ~result.success
    THEN [acc EXCEPT !.errors = Append(@, result.error)]
    ELSE [headers |-> mapSet(acc.headers, result.header.name, result.header.value),
          errors |-> acc.errors,
          warnings |-> IF /\ result.header.value = <<>>
                          /\ result.header.originalValue # <<>>
                          /\ hasEnvVar(result.header.originalValue)
                       THEN Append(acc.warnings,
                                   [msg |-> "empty value after environment variable expansion",
                                    of |-> result.header.name])
                       ELSE acc.warnings]

\* the loop of parseHeaders() from entry i on
RECURSIVE parseHeadersFrom(_, _, _, _)
parseHeadersFrom(headerStrings, env, i, acc) ==
    IF i > Len(headerStrings) THEN acc
    ELSE parseHeadersFrom(headerStrings, env, i + 1,
                          parseHeadersStep(acc, parseHeader(headerStrings[i], env)))

parseHeaders(headerStrings, env) ==
    parseHeadersFrom(headerStrings, env, 1, [headers |-> <<>>, errors |-> <<>>, warnings |-> <<>>])

sensitiveHeaders ==
    {<<"a", "u", "t", "h", "o", "r", "i", "z", "a", "t", "i", "o", "n">>,
     <<"x", "-", "a", "p", "i", "-", "k", "e", "y">>,
     <<"a", "p", "i", "-", "k", "e", "y">>,
     <<"x", "-", "a", "u", "t", "h", "-", "t", "o", "k", "e", "n">>,
     <<"c", "o", "o", "k", "i", "e">>,
     <<"s", "e", "t", "-", "c", "o", "o", "k", "i", "e">>}

MASK == <<"*", "*", "*">>

maskSensitiveValue_NoLower(name, value) ==
    IF name \in sensitiveHeaders
    THEN IF Len(value) <= 12
         THEN MASK
         ELSE SubSeq(value, 1, 4) \o MASK \o SubSeq(value, Len(value) - 3, Len(value))
    ELSE value

\* lines 184-196
maskSensitiveValue(name, value) ==
    IF toLowerCase(name) \in sensitiveHeaders
    THEN IF Len(value) <= 12
         THEN MASK
         ELSE SubSeq(value, 1, 4) \o MASK \o SubSeq(value, Len(value) - 3, Len(value))
    ELSE value

(***************************************************************************)
(* src/lib/url-validator.js.  A URL argument is its text together with     *)
(* what the platform makes of it: whether trim() changes it and the URL    *)
(* object new URL() builds from it, if any; the port is kept as characters. *)
(***************************************************************************)
ParsedUrl(protocol, hostname, port, username, password) ==
    [ok |-> TRUE, protocol |-> protocol, hostname |-> hostname, port |-> port,
     username |-> username, password |-> password]

NoUrl == [ok |-> FALSE]

UrlArg(text, padded, parsed) == [type |-> "string", text |-> text, padded |-> padded, parsed |-> parsed]

isLocalhost_Never(hostname) == FALSE

isLocalhost(hostname) == hostname \in {"localhost", "127.0.0.1", "::1", "[::1]"}

\* the result {valid, url, warnings} or {valid, error}; an error or a warning
\* is its message and the text it quotes
validateUrl(urlString) ==
    LET url == urlString.parsed
        fails(msg, of) == [valid |-> FALSE, error |-> [msg |-> msg, of |-> of]]
        w1 == IF urlString.padded
              THEN <<[msg |-> "URL contained leading/trailing whitespace", of |-> <<>>]>>
              ELSE <<>>
        w2 == IF url.protocol = "http:" /\ ~isLocalhost(url.hostname)
              THEN <<[msg |-> "Using insecure HTTP for non-localhost URL", of |-> <<url.hostname>>]>>
              ELSE <<>>
        w3 == IF url.username # "" \/ url.password # ""
              THEN <<[msg |-> "URL contains credentials", of |-> <<>>]>>
              ELSE <<>>
    IN IF urlString.type # "string" \/ urlString.text = ""
       THEN fails("URL must be a non-empty string", <<>>)
       ELSE IF ~url.ok
       THEN fails("Invalid URL format", <<urlString.text>>)
       ELSE IF url.protocol \notin {"http:", "https:"}
       THEN fails("Invalid protocol", <<url.protocol>>)
       ELSE IF url.hostname = ""
       THEN fails("URL must have a hostname", <<>>)
       ELSE IF url.port # <<>> /\ \E i \in 1..Len(url.port) : url.port[i] \notin Digit
       THEN fails("Invalid port", <<Concat(url.port)>>)
       ELSE [valid |-> TRUE, url |-> url, warnings |-> w1 \o w2 \o w3]

\* The text scheme://host[:port][path] of an endpoint, as its parts, each a
\* character sequence; port and path are empty when the text has none.
UrlText(scheme, host, port, path) == [scheme |-> scheme, host |-> host, port |-> port, path |-> path]

\* the decimal digits of a port without leading zeros
RECURSIVE stripZeros(_)
stripZeros(digits) == IF Len(digits) > 1 /\ Head(digits) = "0" THEN stripZeros(Tail(digits)) ELSE digits

\* the default port of a protocol, none for other protocols
defaultPort(protocol) ==
    IF protocol = <<"h", "t", "t", "p", ":">> THEN <<"8", "0">>
    ELSE IF protocol = <<"h", "t", "t", "p", "s", ":">> THEN <<"4", "4", "3">>
    ELSE <<>>

URLparse_KeepsPort(u) ==
    [protocol |-> toLowerCase(u.scheme) \o <<":">>,
     hostname |-> toLowerCase(u.host),
     port |-> u.port,
     pathname |-> IF u.path = <<>> THEN <<"/">> ELSE u.path]

\* new URL(urlString) of normalizeUrl(), line 412: the parser lowercases the
\* scheme and the host, reads the port as a number and drops it when it is the
\* default of the scheme, and gives an http(s) URL without a path the path "/"
URLparse(u) ==
    [protocol |-> toLowerCase(u.scheme) \o <<":">>,
     hostname |-> toLowerCase(u.host),
     port |-> IF u.port = <<>> \/ stripZeros(u.port) = defaultPort(toLowerCase(u.scheme) \o <<":">>)
              THEN <<>>
              ELSE stripZeros(u.port),
     pathname |-> IF u.path = <<>> THEN <<"/">> ELSE u.path]

\* url.toString(), line 420
URLtoString(url) ==
    UrlText(SubSeq(url.protocol, 1, Len(url.protocol) - 1), url.hostname, url.port, url.pathname)

\* lines 414-418, on the URL object
removeDefaultPort(url) ==
    IF \/ url.protocol = <<"h", "t", "t", "p", ":">> /\ url.port = <<"8", "0">>
       \/ url.protocol = <<"h", "t", "t", "p", "s", ":">> /\ url.port = <<"4", "4", "3">>
    THEN [url EXCEPT !.port = <<>>]
    ELSE url

normalizeUrl(urlString) == URLtoString(removeDefaultPort(URLparse(urlString)))

(***************************************************************************)
(* HTTPProxyConfig                                                         *)
(***************************************************************************)
DEFAULT_TIMEOUT == 60000

Num(n) == [t |-> "number", n |-> n]

HTTPProxyConfig_RawTimeout(options) ==
    [url |-> options.url,
     headers |-> options.headers,
     timeout |-> IF options.timeout.t = "number" THEN options.timeout.n ELSE DEFAULT_TIMEOUT,
     debug |-> options.debug = "bool:true"]

\* the constructor, lines 27-48
HTTPProxyConfig(options) ==
    [url |-> options.url,
     headers |-> options.headers,
     timeout |-> IF options.timeout.t = "number" /\ options.timeout.n > 0
                 THEN options.timeout.n
                 ELSE DEFAULT_TIMEOUT,
     debug |-> options.debug = "bool:true"]

\* fromArgs() from line 67 on, given what validateUrl() and parseHeaders()
\* return (parseHeaders() is only called with a valid URL)
fromArgsWith(args, urlResult, headerResult) ==
    IF ~urlResult.valid
    THEN [config |-> NoValue, errors |-> <<urlResult.error>>, warnings |-> <<>>]
    ELSE IF Len(headerResult.errors) > 0
    THEN [config |-> NoValue, errors |-> headerResult.errors,
          warnings |-> urlResult.warnings \o headerResult.warnings]
    ELSE [config |-> HTTPProxyConfig([url |-> urlResult.url, headers |-> headerResult.headers,
                                      timeout |-> args.timeout, debug |-> args.debug]),
          errors |-> headerResult.errors,
          warnings |-> urlResult.warnings \o headerResult.warnings]

fromArgs_KeepsConfig(args, env) ==
    [fromArgsWith(args, validateUrl(args.url), parseHeaders(args.headers, env))
        EXCEPT !.config = HTTPProxyConfig([url |-> NoUrl, headers |-> <<>>,
                                           timeout |-> args.timeout, debug |-> args.debug])]

\* the result {config, errors, warnings}; config is NoValue when absent
fromArgs(args, env) == fromArgsWith(args, validateUrl(args.url), parseHeaders(args.headers, env))

(***************************************************************************)
(* The inputs the environment can supply.                                  *)
(***************************************************************************)
\* single messages: a request, a notification, and messages that fail shape
\* validation (no jsonrpc member) with and without an id
Objects == {Obj("str:2.0", "str:ping", "undefined", "num:7"),
            Obj("str:2.0", "str:ping", "undefined", "undefined"),
            Obj("undefined", "str:ping", "undefined", "num:7"),
            Obj("undefined", "str:ping", "undefined", "num:0"),
            Obj("undefined", "str:ping", "undefined", "undefined")}

Scalars == {[t |-> "null"], [t |-> "number"]}

Batches == {Arr(<<>>),
            Arr(<<Obj("str:2.0", "str:ping", "undefined", "num:7"), [t |-> "null"]>>)}

\* an input line after trim() and JSON.parse()
Lines == {[kind |-> "blank"], [kind |-> "badjson"]}
         \cup {[kind |-> "json", value |-> v] : v \in Objects \cup Scalars \cup Batches}

\* a JSON-RPC notification: a request object without an id member
IsNotification(line) ==
    /\ line.kind = "json"
    /\ line.value.t = "object"
    /\ line.value.jsonrpc = "str:2.0"
    /\ line.value.method \in StrVals
    /\ line.value.id = "undefined"

\* a single message (an object, not a batch) without an id member
NoIdObject(line) ==
    /\ line.kind = "json"
    /\ line.value.t = "object"
    /\ line.value.id = "undefined"

\* What is remembered of an input line once a later line is being processed:
\* whether it was blank, a notification, another message without an id, or
\* any other line, which is what decides whether it is owed an output line.
Summary(line) ==
    IF line.kind = "blank" THEN line
    ELSE IF IsNotification(line)
    THEN [kind |-> "json", value |-> Obj("str:2.0", "str:ping", "undefined", "undefined")]
    ELSE IF NoIdObject(line)
    THEN [kind |-> "json", value |-> Obj("undefined", "undefined", "undefined", "undefined")]
    ELSE [kind |-> "other"]

\* what fetch() resolves with: status, statusText, Mcp-Session-Id and
\* Content-Type headers; over HTTP/2 the statusText is empty
Responses ==
    {[status |-> st, statusText |-> IF st = 200 THEN "str:OK" ELSE "str:Unauthorized",
      sid |-> sid, ctype |-> ct] :
        st \in {200, 401},
        sid \in {"null", "str:", "str:s1", "str:s2"},
        ct \in {"str:application/json", "str:text/event-stream"}}
    \cup {[status |-> 401, statusText |-> "str:", sid |-> "null", ctype |-> "str:application/json"]}

NoResponse == [status |-> 0]

\* response.ok
Ok(r) == r.status >= 200 /\ r.status <= 299

IsEventStream_Never(ctype) == FALSE

\* contentType.includes('text/event-stream')
IsEventStream(ctype) == ctype \in {"str:text/event-stream"}

\* what a rejected fetch() or body read throws
NetErrors == {[name |-> "TypeError", message |-> <<"fetch failed">>, code |-> "undefined", causeCode |-> c] :
                 c \in {"ECONNREFUSED", "ETIMEDOUT"}}

SyntaxError == [name |-> "SyntaxError", message |-> <<"Unexpected token U in JSON at position 0">>,
                code |-> "undefined", causeCode |-> "undefined"]

\* Response bodies.  JsonBody(lit) is the text
\* {"jsonrpc":"2.0","id":7,"result":<lit>} with the number literal lit;
\* TextBody is a text that is not JSON.
JsonBody(lit) == [t |-> "json", result |-> lit]
TextBody == [t |-> "text", chars |-> "Unauthorized"]
Unread == [t |-> "unread"]
FailedRead == [t |-> "failed"]
Undefined == [t |-> "undefined"]

\* bodies of success responses and of non-success responses
RemoteBodies == {JsonBody("7"), JsonBody("9007199254740993"), TextBody}
ErrorBodies == {JsonBody("7"), TextBody}

\* the Number a literal denotes, written by its exact decimal value: the
\* nearest IEEE-754 double (2^53 + 1 has none of its own and rounds to 2^53)
ToNumber(lit) == IF lit = "9007199254740993" THEN "9007199254740992" ELSE lit

\* Number::toString of an integral double below 10^21: its decimal digits
NumberToString(n) == n

\* JSON.parse of a body that is JSON
JSONparse(body) == [t |-> "object", result |-> ToNumber(body.result)]

\* JSON.stringify of what processLine() returns: the text of a parsed remote
\* body, or the envelope with its members as they are
JSONstringify(r) ==
    IF r.kind = "remote"
    THEN [kind |-> "remote", text |-> JsonBody(NumberToString(r.data.result))]
    ELSE r

HeaderNames == {"Content-Type", "Accept", "Authorization", "Mcp-Session-Id"}

NoHeaders == [n \in HeaderNames |-> "undefined"]

\* config.headers of the validated configurations considered
ConfigHeaders == {NoHeaders,
                  [NoHeaders EXCEPT !["Content-Type"] = "str:text/plain",
                                    !["Authorization"] = "str:tok",
                                    !["Mcp-Session-Id"] = "str:cfg"]}


\* headersMapToObject(), for the header names the inputs use
headersMapToObject(headersMap) ==
    [n \in HeaderNames |->
        IF \E i \in 1..Len(headersMap) : Concat(headersMap[i].name) = n
        THEN LET i == CHOOSE i \in 1..Len(headersMap) : Concat(headersMap[i].name) = n
             IN "str:" \o Concat(headersMap[i].value)
        ELSE "undefined"]

\* the arguments of startHttpProxy(): the --http URL ...
UrlHttps == UrlArg("https://api.example.com/mcp", FALSE,
                   ParsedUrl("https:", "api.example.com", <<>>, "", ""))
UrlHttp == UrlArg("http://api.example.com/mcp", FALSE,
                  ParsedUrl("http:", "api.example.com", <<>>, "", ""))
UrlPaddedFtp == UrlArg(" ftp://example.com/ ", TRUE, ParsedUrl("ftp:", "example.com", <<>>, "", ""))
UrlNotAUrl == UrlArg("not-a-url", FALSE, NoUrl)
UrlMissing == [type |-> "undefined", text |-> "", padded |-> FALSE, parsed |-> NoUrl]

UrlArgs == {UrlHttps, UrlHttp, UrlPaddedFtp, UrlNotAUrl, UrlMissing}

\* ... the --header strings ...
AuthorizationName == <<"A", "u", "t", "h", "o", "r", "i", "z", "a", "t", "i", "o", "n">>
HeaderAuthVar == AuthorizationName \o <<":", " ", "$", "K">>
HeaderNoColon == <<"B", "a", "d">>
HeaderBadName == <<"X", " ", "Y", ":", "v">>

HeaderArgs == {<<>>, <<HeaderAuthVar>>, <<HeaderNoColon>>, <<HeaderAuthVar, HeaderNoColon>>,
               <<HeaderNoColon, HeaderBadName>>}

\* ... the --timeout value and the environment
TimeoutArgs == {Undefined, Num(0), Num(0 - 1), Num(5000)}

Envs == {<<>>, [n \in {<<"K">>} |-> <<"t", "o", "k">>], [n \in {<<"K">>} |-> <<"a", "\r", "b">>]}

StartArgs == [url : UrlArgs, headers : HeaderArgs, timeout : TimeoutArgs, debug : {"undefined"}]

(***************************************************************************)
(* State.                                                                  *)
(***************************************************************************)
VARIABLES
    headers,          \* config.headers
    sessionId,        \* HTTPProxySession.sessionId
    isActive,         \* HTTPProxySession.isActive
    requestCount,     \* HTTPProxySession.requestCount
    abortController,  \* _abortController: "null", "live" or "aborted" (its signal)
    timer,            \* timeoutId of the dispatch in progress: "none", "armed", "cleared", "fired"
    deadlinePassed,   \* config.timeout ms have elapsed since the dispatch began
    mainPc,           \* where start()/processLine() is suspended
    response,         \* the Response fetch() resolved with for the current line, else NoResponse
    inflight,         \* POSTs issued whose dispatch has not returned
    postCount,        \* POSTs issued so far
    pendingPost,      \* the POST awaiting its response: [headers, body], else NoValue
    lastRecvSid,      \* the last non-empty Mcp-Session-Id a response carried
    lastReturn,       \* what sendRequest() returned to the current processLine()
    inputLog,         \* the lines handed to processLine(), in order: the current one and the
                      \* Summary of each earlier one
    output,           \* the lines written (returned): for each, the index of the input line it answers
    lastLine,         \* the content of the line written for the current input line, if any
    stopCalls,        \* number of stop() calls
    pendingDeletes,   \* cleanup DELETEs awaiting their outcome
    deleteCount,      \* cleanup DELETEs issued so far
    lastDelete,       \* the most recent DELETE: its headers and how a DELETE settled since
    exited,           \* "running", "exit0", "exit1"
    startup,          \* startHttpProxy() before the session exists: its arguments, the
                      \* environment and what fromArgs() returned; NoValue afterwards
    config,           \* url, timeout and debug of the session's HTTPProxyConfig (its headers
                      \* are the variable headers); NoValue before the session exists
    call              \* the library function called last, its arguments and what it
                      \* returned; NoValue while the program runs

\* the variables of the program
progVars == <<startup, config, headers, sessionId, isActive, requestCount, abortController, timer,
              deadlinePassed, mainPc, response, inflight, postCount, pendingPost, lastRecvSid,
              lastReturn, inputLog, output, lastLine, stopCalls, pendingDeletes, deleteCount,
              lastDelete, exited>>

vars == <<call, progVars>>

fixedVars == <<call, startup, config>>
cfgVars == <<fixedVars, headers>>
sessionVars == <<sessionId, isActive, requestCount, abortController>>
stopVars == <<stopCalls, pendingDeletes, deleteCount, lastDelete>>
postVars == <<inflight, postCount, pendingPost>>
outVars == <<output, lastLine>>

\* the line processLine() is working on
curLine == inputLog[Len(inputLog)]
curMessage == curLine.value
requestId_FirstItem ==
    IF isBatchRequest(curMessage) THEN curMessage.items[1].id ELSE Member(curMessage, "id")

requestId == IF isBatchRequest(curMessage) THEN "null" ELSE Member(curMessage, "id")

Init ==
    /\ call = NoValue
    /\ startup = NoValue
    /\ config = [url |-> UrlHttps.parsed, timeout |-> DEFAULT_TIMEOUT, debug |-> FALSE]
    /\ headers \in ConfigHeaders
    /\ sessionId = "null"
    /\ isActive = TRUE
    /\ requestCount = 0
    /\ abortController = "null"
    /\ timer = "none"
    /\ deadlinePassed = FALSE
    /\ mainPc = "readLine"
    /\ response = NoResponse
    /\ inflight = 0
    /\ postCount = 0
    /\ pendingPost = NoValue
    /\ lastRecvSid = "null"
    /\ lastReturn = NoValue
    /\ inputLog = <<>>
    /\ output = <<>>
    /\ lastLine = NoValue
    /\ stopCalls = 0
    /\ pendingDeletes = 0
    /\ deleteCount = 0
    /\ lastDelete = NoValue
    /\ exited = "running"

(***************************************************************************)
(* HTTPProxySession                                                        *)
(***************************************************************************)
buildRequestHeaders_NoConfig ==
    LET fixed == [n \in HeaderNames |->
                     IF n \in {"Content-Type", "Accept"} THEN "str:application/json" ELSE "undefined"]
    IN IF ~Falsy(sessionId) THEN [fixed EXCEPT !["Mcp-Session-Id"] = sessionId] ELSE fixed

buildRequestHeaders_FixedLast ==
    LET spread == [n \in HeaderNames |->
                      IF n \in {"Content-Type", "Accept"} THEN "str:application/json" ELSE headers[n]]
    IN IF ~Falsy(sessionId) THEN [spread EXCEPT !["Mcp-Session-Id"] = sessionId] ELSE spread

\* lines 149-162: the fixed pair, the spread of config.headers over it, then
\* the session id
buildRequestHeaders ==
    LET fixed == [n \in HeaderNames |->
                     IF n \in {"Content-Type", "Accept"} THEN "str:application/json" ELSE "undefined"]
        spread == [n \in HeaderNames |-> IF headers[n] # "undefined" THEN headers[n] ELSE fixed[n]]
    IN IF ~Falsy(sessionId) THEN [spread EXCEPT !["Mcp-Session-Id"] = sessionId] ELSE spread

configHeadersAfterBuild_Shared ==
    IF ~Falsy(sessionId) THEN [headers EXCEPT !["Mcp-Session-Id"] = sessionId] ELSE headers

\* config.headers once buildRequestHeaders() has returned: the session id is
\* assigned to the object the literal of lines 150-154 creates, into which
\* headersMapToObject() copied the entries of the Map, which is left as it was
configHeadersAfterBuild == headers

\* processLine() hands its outcome for input line n to its caller, which
\* writes it (start(), lines 347-350) or receives it (a direct caller)
WriteLine(n, r) ==
    /\ output' = Append(output, n)
    /\ lastLine' = JSONstringify(r)

\* sendRequest() from its entry to the await of fetch()
sendRequestBegin ==
    /\ abortController' = "live"
    /\ timer' = "armed"
    /\ deadlinePassed' = FALSE
    /\ pendingPost' = [headers |-> buildRequestHeaders, body |-> inputLog'[Len(inputLog')].value]
    /\ postCount' = postCount + 1
    /\ inflight' = inflight + 1
    /\ mainPc' = "fetch"
    /\ lastReturn' = NoValue
    /\ response' = NoResponse
    /\ lastLine' = NoValue
    /\ headers' = configHeadersAfterBuild
    /\ UNCHANGED <<sessionId, isActive, requestCount, output, exited>>

DiscardsResponse_Never(msg) == FALSE

DiscardsResponse_IdNull(msg) == ~isBatchRequest(msg) /\ Member(msg, "id") = "null"

\* the notification test of processLine(), line 314
DiscardsResponse(msg) == ~isBatchRequest(msg) /\ Member(msg, "id") = "undefined"

sendRequestReturn_TimerKept(r) ==
    /\ abortController' = "null"
    /\ lastReturn' = r
    /\ UNCHANGED timer
    /\ deadlinePassed' = FALSE
    /\ inflight' = inflight - 1
    /\ pendingPost' = NoValue
    /\ IF DiscardsResponse(curMessage) THEN UNCHANGED outVars ELSE WriteLine(Len(inputLog), r)
    /\ mainPc' = "readLine"

sendRequestReturn_ErrorsWritten(r) ==
    /\ abortController' = "null"
    /\ lastReturn' = r
    /\ timer' = "none"
    /\ deadlinePassed' = FALSE
    /\ inflight' = inflight - 1
    /\ pendingPost' = NoValue
    /\ IF DiscardsResponse(curMessage) /\ r.kind = "remote"
       THEN UNCHANGED outVars
       ELSE WriteLine(Len(inputLog), r)
    /\ mainPc' = "readLine"

\* sendRequest() returns r: the timer is cleared on every path and the finally
\* block drops the controller; processLine() returns and its caller writes
\* the line
sendRequestReturn(r) ==
    /\ abortController' = "null"
    /\ lastReturn' = r
    /\ timer' = "none"
    /\ deadlinePassed' = FALSE
    /\ inflight' = inflight - 1
    /\ pendingPost' = NoValue
    /\ IF DiscardsResponse(curMessage) THEN UNCHANGED outVars ELSE WriteLine(Len(inputLog), r)
    /\ mainPc' = "readLine"

\* processLine() up to its first await or its return; exitOnThrow tells
\* whether the caller is startHttpProxy(), whose catch ends the process
processLine(line, exitOnThrow) ==
    LET msg == line.value
        n == Len(inputLog) + 1
        unchanged ==
            /\ lastReturn' = NoValue
            /\ response' = NoResponse
            /\ UNCHANGED <<headers, sessionVars, timer, deadlinePassed, mainPc, postVars, exited>>
        returnsNull == unchanged /\ lastLine' = NoValue /\ UNCHANGED output
        returns(r) == unchanged /\ WriteLine(n, r)
    IN /\ inputLog' = Append([i \in 1..Len(inputLog) |-> Summary(inputLog[i])], line)
       /\ UNCHANGED <<fixedVars, lastRecvSid, stopVars>>
       /\ IF line.kind = "blank" THEN returnsNull
          ELSE IF line.kind = "badjson" THEN returns(parseError)
          ELSE IF isBatchRequest(msg)
          THEN IF Len(msg.items) = 0
               THEN returns(invalidRequest("null", "Empty batch"))
               ELSE sendRequestBegin
          ELSE IF ~isValidRequest(msg).valid
          THEN IF msg.t = "null"
               \* message.id on null throws a TypeError
               THEN /\ exited' = IF exitOnThrow THEN "exit1" ELSE exited
                    /\ lastReturn' = NoValue
                    /\ response' = NoResponse
                    /\ lastLine' = NoValue
                    /\ UNCHANGED <<headers, sessionVars, timer, deadlinePassed, mainPc, postVars,
                                   output>>
               ELSE returns(invalidRequest(OrNull(Member(msg, "id")), isValidRequest(msg).error))
          ELSE sendRequestBegin

LoopCanRead_NoAwait == mainPc \in {"readLine", "fetch", "bodyText", "bodyJson"}

\* the for-await of start() takes the next line only when the previous
\* processLine() has returned and its output is written
LoopCanRead == mainPc = "readLine"

ReadLine_IgnoresActive ==
    /\ exited = "running"
    /\ LoopCanRead
    /\ Len(inputLog) < MaxLines
    /\ \E line \in Lines : processLine(line, TRUE)

\* start(), lines 342-351: one iteration up to the first await
ReadLine ==
    /\ exited = "running"
    /\ LoopCanRead
    /\ IF ~isActive
       THEN /\ mainPc' = "done"
            /\ UNCHANGED <<cfgVars, sessionVars, timer, deadlinePassed, response, postVars,
                           lastRecvSid, lastReturn, inputLog, outVars, stopVars, exited>>
       ELSE /\ Len(inputLog) < MaxLines
            /\ \E line \in Lines : processLine(line, TRUE)

\* the input stream closes: the loop ends and start() returns
StdinClosed ==
    /\ exited = "running"
    /\ mainPc = "readLine"
    /\ mainPc' = "done"
    /\ UNCHANGED <<cfgVars, sessionVars, timer, deadlinePassed, response, postVars,
                   lastRecvSid, lastReturn, inputLog, outVars, stopVars, exited>>

CapturedSessionId_OkOnly(r) ==
    IF r.status >= 200 /\ r.status <= 299 /\ ~Falsy(r.sid) /\ r.sid # sessionId THEN r.sid ELSE sessionId

CapturedSessionId_FirstWins(r) == IF ~Falsy(r.sid) /\ sessionId = "null" THEN r.sid ELSE sessionId

\* Mcp-Session-Id capture, lines 197-201
CapturedSessionId(r) == IF ~Falsy(r.sid) /\ r.sid # sessionId THEN r.sid ELSE sessionId

\* fetch() resolves: the status line and headers of the response arrived
FetchResolves ==
    /\ exited = "running"
    /\ mainPc = "fetch"
    /\ abortController = "live"
    /\ \E r \in Responses :
          /\ requestCount' = requestCount + 1
          /\ sessionId' = CapturedSessionId(r)
          /\ lastRecvSid' = IF ~Falsy(r.sid) THEN r.sid ELSE lastRecvSid
          /\ response' = [status |-> r.status, statusText |-> r.statusText, ctype |-> r.ctype,
                          body |-> Unread]
          /\ IF ~Ok(r)
             THEN /\ mainPc' = "bodyText"
                  /\ timer' = "cleared"
                  /\ UNCHANGED <<abortController, deadlinePassed, inflight, pendingPost, lastReturn, outVars>>
             ELSE IF IsEventStream(r.ctype)
             THEN sendRequestReturn(internalError(requestId, "SSE responses not supported",
                                                  [contentType |-> r.ctype]))
             ELSE /\ mainPc' = "bodyJson"
                  /\ timer' = "cleared"
                  /\ UNCHANGED <<abortController, deadlinePassed, inflight, pendingPost, lastReturn, outVars>>
    /\ UNCHANGED <<cfgVars, isActive, postCount, inputLog, stopVars, exited>>

\* fetch() rejects with a network failure
FetchRejects ==
    /\ exited = "running"
    /\ mainPc = "fetch"
    /\ abortController = "live"
    /\ \E err \in NetErrors : sendRequestReturn(fromNetworkError(err, requestId))
    /\ UNCHANGED <<cfgVars, sessionId, isActive, requestCount, postCount, response,
                   lastRecvSid, inputLog, stopVars, exited>>

\* the catch block of sendRequest() for an AbortError, lines 245-251
timeoutResponse ==
    fromNetworkError([name |-> "TimeoutError",
                      message |-> <<"Request timeout after ", config.timeout, "ms">>,
                      code |-> "undefined", causeCode |-> "undefined"], requestId)

\* the signal of the dispatch was aborted: the awaited fetch() or
\* response.json() rejects with an AbortError
AbortRejects ==
    /\ exited = "running"
    /\ mainPc \in {"fetch", "bodyJson"}
    /\ abortController = "aborted"
    /\ sendRequestReturn(timeoutResponse)
    /\ UNCHANGED <<cfgVars, sessionId, isActive, requestCount, postCount, response,
                   lastRecvSid, inputLog, stopVars, exited>>

\* response.statusText || 'Unknown Error', line 205
statusTextOf(r) == IF Falsy(r.statusText) THEN "str:Unknown Error" ELSE r.statusText

errorBody_Text(b) == IF b.t = "failed" THEN Undefined ELSE [t |-> "string", chars |-> "raw"]

\* lines 206-217: the body as JSON when it parses, as text when it does not,
\* undefined when it could not be read
errorBody(b) ==
    IF b.t = "json" THEN JSONparse(b)
    ELSE IF b.t = "text" THEN [t |-> "string", chars |-> b.chars]
    ELSE Undefined

\* response.text() of a non-success response settles, lines 204-221: with
\* the body, or with a failed read (also an aborted one)
ErrorBodyRead ==
    /\ exited = "running"
    /\ mainPc = "bodyText"
    /\ \E b \in ErrorBodies \cup {FailedRead} :
          /\ abortController = "aborted" => b = FailedRead
          /\ response' = [response EXCEPT !.body = b]
          /\ sendRequestReturn(fromHttpError(response.status, statusTextOf(response), requestId,
                                             errorBody(b)))
    /\ UNCHANGED <<cfgVars, sessionId, isActive, requestCount, postCount,
                   lastRecvSid, inputLog, stopVars, exited>>

\* response.json() of a success response settles, lines 236-239: the
\* parsed body, a SyntaxError for a body that is not JSON, or a failed read
JsonBodyRead ==
    /\ exited = "running"
    /\ mainPc = "bodyJson"
    /\ abortController = "live"
    /\ \/ \E b \in RemoteBodies :
             /\ response' = [response EXCEPT !.body = b]
             /\ IF b.t = "json"
                THEN sendRequestReturn([kind |-> "remote", data |-> JSONparse(b)])
                ELSE sendRequestReturn(fromNetworkError(SyntaxError, requestId))
       \/ \E err \in NetErrors :
             /\ response' = [response EXCEPT !.body = FailedRead]
             /\ sendRequestReturn(fromNetworkError(err, requestId))
    /\ UNCHANGED <<cfgVars, sessionId, isActive, requestCount, postCount,
                   lastRecvSid, inputLog, stopVars, exited>>

\* config.timeout ms pass while the dispatch waits for the remote
Tick ==
    /\ exited = "running"
    /\ mainPc \in {"fetch", "bodyText", "bodyJson"}
    /\ ~deadlinePassed
    /\ deadlinePassed' = TRUE
    /\ UNCHANGED <<cfgVars, sessionVars, timer, mainPc, response, postVars, lastRecvSid,
                   lastReturn, inputLog, outVars, stopVars, exited>>

\* the setTimeout callback of sendRequest(), lines 178-180
TimerFires ==
    /\ exited = "running"
    /\ timer = "armed"
    /\ deadlinePassed
    /\ timer' = "fired"
    /\ abortController' = "aborted"
    /\ UNCHANGED <<cfgVars, sessionId, isActive, requestCount, deadlinePassed, mainPc, response,
                   postVars, lastRecvSid, lastReturn, inputLog, outVars, stopVars, exited>>

stop_DeleteOnly(exitAfter) ==
    /\ stopCalls < MaxSignals
    /\ stopCalls' = stopCalls + 1
    /\ isActive' = FALSE
    /\ UNCHANGED abortController
    /\ IF ~Falsy(sessionId)
       THEN /\ deleteCount' = deleteCount + 1
            /\ pendingDeletes' = pendingDeletes + 1
            /\ lastDelete' = [kind |-> "delete",
                              headers |-> [NoHeaders EXCEPT !["Mcp-Session-Id"] = sessionId],
                              outcome |-> "pending"]
            /\ UNCHANGED exited
       ELSE /\ exited' = IF exitAfter THEN "exit0" ELSE exited
            /\ UNCHANGED <<deleteCount, pendingDeletes, lastDelete>>
    /\ UNCHANGED <<cfgVars, sessionId, requestCount, timer, deadlinePassed, mainPc, response,
                   postVars, lastRecvSid, lastReturn, inputLog, outVars>>

\* stop() up to the await of the cleanup DELETE or, without a session id,
\* to its return; exitAfter tells whether shutdown() called it
stop(exitAfter) ==
    /\ stopCalls < MaxSignals
    /\ stopCalls' = stopCalls + 1
    /\ isActive' = FALSE
    /\ abortController' = IF abortController # "null" THEN "aborted" ELSE abortController
    /\ IF ~Falsy(sessionId)
       THEN /\ deleteCount' = deleteCount + 1
            /\ pendingDeletes' = pendingDeletes + 1
            /\ lastDelete' = [kind |-> "delete",
                              headers |-> [NoHeaders EXCEPT !["Mcp-Session-Id"] = sessionId],
                              outcome |-> "pending"]
            /\ UNCHANGED exited
       ELSE /\ exited' = IF exitAfter THEN "exit0" ELSE exited
            /\ UNCHANGED <<deleteCount, pendingDeletes, lastDelete>>
    /\ UNCHANGED <<cfgVars, sessionId, requestCount, timer, deadlinePassed, mainPc, response,
                   postVars, lastRecvSid, lastReturn, inputLog, outVars>>

\* how the cleanup DELETE can settle: a response with a success or an error
\* status, a network failure, or the expiry of AbortSignal.timeout(5000)
DeleteOutcomes == {"ok", "httpError", "networkError", "timeout"}

stopRaises_NoCatch(outcome) == outcome \in {"networkError", "timeout"}

\* the try/catch around the DELETE, lines 371-383: a rejected fetch() is
\* caught, a response of any status is ignored
stopRaises(outcome) == FALSE

\* the cleanup DELETE settles and stop() returns; were stop() to reject, the
\* rejection of shutdown() would be unhandled and end the process with code 1
stopReturns(exitAfter) ==
    /\ pendingDeletes > 0
    /\ pendingDeletes' = pendingDeletes - 1
    /\ \E outcome \in DeleteOutcomes :
          /\ lastDelete' = [lastDelete EXCEPT !.outcome = outcome]
          /\ exited' = IF ~exitAfter THEN exited
                       ELSE IF stopRaises(outcome) THEN "exit1" ELSE "exit0"
    /\ UNCHANGED <<cfgVars, sessionVars, timer, deadlinePassed, mainPc, response, postVars,
                   lastRecvSid, lastReturn, inputLog, outVars, stopCalls, deleteCount>>

\* the session exists: startHttpProxy() is past line 419
SessionCreated == mainPc \notin {"fromArgs", "parsed"}

\* shutdown() of startHttpProxy() on SIGINT or SIGTERM; the handlers are
\* installed once the session is created
Shutdown == exited = "running" /\ SessionCreated /\ stop(TRUE)

ShutdownExits == exited = "running" /\ stopReturns(TRUE)

\* start() has returned and nothing is pending: the process ends
ProcessEnds ==
    /\ exited = "running"
    /\ mainPc = "done"
    /\ pendingDeletes = 0
    /\ exited' = "exit0"
    /\ UNCHANGED <<cfgVars, sessionVars, timer, deadlinePassed, mainPc, response, postVars,
                   lastRecvSid, lastReturn, inputLog, outVars, stopVars>>

Next ==
    \/ ReadLine
    \/ StdinClosed
    \/ FetchResolves
    \/ FetchRejects
    \/ AbortRejects
    \/ ErrorBodyRead
    \/ JsonBodyRead
    \/ Tick
    \/ TimerFires
    \/ Shutdown
    \/ ShutdownExits
    \/ ProcessEnds

Spec == Init /\ [][Next]_vars

(***************************************************************************)
(* A direct caller of the session: awaits each processLine(), may call     *)
(* stop() at any time.                                                     *)
(***************************************************************************)
CallProcessLine ==
    /\ mainPc = "readLine"
    /\ Len(inputLog) < MaxLines
    /\ \E line \in Lines : processLine(line, FALSE)

CallStop == stop(FALSE)

CallStopReturns == stopReturns(FALSE)

NextApi ==
    \/ CallProcessLine
    \/ CallStop
    \/ CallStopReturns
    \/ FetchResolves
    \/ FetchRejects
    \/ AbortRejects
    \/ ErrorBodyRead
    \/ JsonBodyRead
    \/ Tick
    \/ TimerFires

SpecApi == Init /\ [][NextApi]_vars

(***************************************************************************)
(* The program from the call of startHttpProxy(args, env).                 *)
(***************************************************************************)
InitConfig ==
    /\ call = NoValue
    /\ startup \in [args : StartArgs, env : Envs, result : {NoValue}]
    /\ config = NoValue
    /\ headers = NoHeaders
    /\ sessionId = "null"
    /\ isActive = TRUE
    /\ requestCount = 0
    /\ abortController = "null"
    /\ timer = "none"
    /\ deadlinePassed = FALSE
    /\ mainPc = "fromArgs"
    /\ response = NoResponse
    /\ inflight = 0
    /\ postCount = 0
    /\ pendingPost = NoValue
    /\ lastRecvSid = "null"
    /\ lastReturn = NoValue
    /\ inputLog = <<>>
    /\ output = <<>>
    /\ lastLine = NoValue
    /\ stopCalls = 0
    /\ pendingDeletes = 0
    /\ deleteCount = 0
    /\ lastDelete = NoValue
    /\ exited = "running"

\* HTTPProxyConfig.fromArgs(args, env) returns, line 403
FromArgs ==
    /\ exited = "running"
    /\ mainPc = "fromArgs"
    /\ startup' = [startup EXCEPT !.result = fromArgs(startup.args, startup.env)]
    /\ mainPc' = "parsed"
    /\ UNCHANGED <<call, config, headers, sessionVars, timer, deadlinePassed, response, postVars, lastRecvSid,
                   lastReturn, inputLog, outVars, stopVars, exited>>

\* startHttpProxy(), lines 405-433: warnings and errors go to stderr; with
\* errors the process exits, otherwise the session is created from the
\* config and start() begins to read
StartSession ==
    /\ exited = "running"
    /\ mainPc = "parsed"
    /\ IF Len(startup.result.errors) > 0
       THEN /\ exited' = "exit1"
            /\ UNCHANGED <<startup, config, headers, sessionVars, mainPc>>
       ELSE /\ headers' = headersMapToObject(startup.result.config.headers)
            /\ config' = [url |-> startup.result.config.url,
                          timeout |-> startup.result.config.timeout,
                          debug |-> startup.result.config.debug]
            /\ startup' = NoValue
            /\ sessionId' = "null"
            /\ isActive' = TRUE
            /\ requestCount' = 0
            /\ abortController' = "null"
            /\ mainPc' = "readLine"
            /\ UNCHANGED exited
    /\ UNCHANGED <<call, timer, deadlinePassed, response, postVars, lastRecvSid, lastReturn,
                   inputLog, outVars, stopVars>>

NextConfig ==
    \/ FromArgs
    \/ StartSession
    \/ Next

SpecConfig == InitConfig /\ [][NextConfig]_vars

(***************************************************************************)
(* The exported functions of header-parser.js, url-validator.js and        *)
(* jsonrpc-error.js called directly, as the tests of the repository do:    *)
(* call holds the function, its arguments and what it returned.  The       *)
(* functions keep no state, so one call from the initial state tells all.  *)
(***************************************************************************)
MaxValueLen == 3
MaxHeaders == 3
MaxSecretLen == 14

\* the character sequences over chars of length at most n
SeqsUpTo(chars, n) == UNION {[1..k -> chars] : k \in 0..n}

\* header names: two valid ones, one with a space, the empty one
LibNames == {<<"X">>,
             <<"A", "$", "K">>,
             <<"X", " ", "Y">>,
             <<>>}

\* header values: every short text over a letter, the space, the characters
\* of a variable reference and CR, and some longer ones
ValueChars == {"a", " ", "$", "K", "\r"}
LibValues ==
    SeqsUpTo(ValueChars, MaxValueLen)
    \cup {<<"$", "{", "K", "}">>,
          <<"$", "{", "K">>,
          <<"$", "K", "}">>,
          <<" ", "$", "K", " ">>,
          <<"a", "\n", "b">>,
          <<"a", ":", "$", "K">>}

\* header strings without a name part
LibWholeHeaders == {<<"$", "K">>,
                    <<"$", "{", "K", "}">>,
                    <<"B", "a", "d">>,
                    <<" ">>,
                    <<>>,
                    <<"$", "K", ":", "$", "K">>}

\* environments: without K, and with K a token, a text with CR inside, a
\* whole header
LibEnvs == {<<>>,
            [n \in {<<"K">>} |-> <<"t", "o", "k">>],
            [n \in {<<"K">>} |-> <<"a", "\r", "b">>],
            [n \in {<<"K">>} |-> <<"X", ":", "b">>]}

\* the entries of the lists handed to parseHeaders()
LibListHeaders == {<<"X", ":", " ", "$", "K">>,
                   <<"X", ":", " ", "$", "{", "K", "}">>,
                   <<"X", ":", " ", "1">>,
                   <<"X", ":", " ", "2">>,
                   <<"x", ":", " ", "3">>,
                   <<"B", "a", "d">>,
                   <<"X", " ", "Y", ":", " ", "v">>,
                   <<"A", "$", "K", ":", " ", "$", "K">>}

LibHeaderLists == SeqsUpTo(LibListHeaders, MaxHeaders)

\* names and values handed to maskSensitiveValue()
MaskNames == {<<"A", "u", "t", "h", "o", "r", "i", "z", "a", "t", "i", "o", "n">>,
              <<"a", "u", "t", "h", "o", "r", "i", "z", "a", "t", "i", "o", "n">>,
              <<"C", "O", "O", "K", "I", "E">>,
              <<"X", "-", "A", "p", "i", "-", "K", "e", "y">>,
              <<"a", "p", "i", "-", "k", "e", "y">>,
              <<"X", "-", "A", "U", "T", "H", "-", "T", "O", "K", "E", "N">>,
              <<"S", "e", "t", "-", "C", "o", "o", "k", "i", "e">>,
              <<"A", "c", "c", "e", "p", "t">>,
              <<"C", "o", "o", "k", "i", "e", "s">>}

SecretBase == <<"B", "e", "a", "r", "e", "r", " ", "g", "h", "p", "_", "1", "2", "3", "4", "5">>
MaskValues ==
    {SubSeq(SecretBase, 1, n) : n \in 0..MaxSecretLen}
    \cup {<<"*">>, <<"*", "*">>, <<"*", "*", "*">>, <<"*", "*", "*", "*">>}

\* URL arguments handed to validateUrl(), besides those of the program
UrlPaddedHttpUser == UrlArg(" http://user@api.example.com/ ", TRUE,
                            ParsedUrl("http:", "api.example.com", <<>>, "user", ""))

LibUrlArgs ==
    UrlArgs
    \cup {UrlPaddedHttpUser,
          UrlArg("http://localhost:3000/mcp", FALSE,
                 ParsedUrl("http:", "localhost", <<"3", "0", "0", "0">>, "", "")),
          UrlArg("http://127.0.0.1/", FALSE, ParsedUrl("http:", "127.0.0.1", <<>>, "", "")),
          UrlArg("http://[::1]:8080/", FALSE, ParsedUrl("http:", "[::1]", <<"8", "0", "8", "0">>, "", "")),
          UrlArg("https://user:pw@api.example.com/", FALSE,
                 ParsedUrl("https:", "api.example.com", <<>>, "user", "pw")),
          UrlArg("HTTP://LOCALHOST/", FALSE, ParsedUrl("http:", "localhost", <<>>, "", "")),
          UrlArg("   ", TRUE, NoUrl),
          UrlArg("", FALSE, NoUrl),
          [type |-> "number", text |-> "", padded |-> FALSE, parsed |-> NoUrl],
          UrlArg("mailto:a@b.c", FALSE, ParsedUrl("mailto:", "", <<>>, "", "")),
          UrlArg("wss://api.example.com/", FALSE, ParsedUrl("wss:", "api.example.com", <<>>, "", ""))}

\* endpoint texts handed to normalizeUrl()
LibUrlTexts ==
    {UrlText(scheme, host, port, path) :
        scheme \in {<<"h", "t", "t", "p">>,
                    <<"H", "T", "T", "P">>,
                    <<"h", "t", "t", "p", "s">>,
                    <<"H", "t", "t", "p", "s">>},
        host \in {<<"a", ".", "i", "o">>,
                  <<"A", ".", "I", "O">>,
                  <<"l", "o", "c", "a", "l", "h", "o", "s", "t">>},
        port \in {<<>>,
                  <<"8", "0">>,
                  <<"0", "8", "0">>,
                  <<"4", "4", "3">>,
                  <<"0", "4", "4", "3">>,
                  <<"8", "0", "8", "0">>,
                  <<"0">>},
        path \in {<<>>,
                  <<"/">>,
                  <<"/", "m", "c", "p">>}}

\* values handed to isValidRequest()
LibRequests ==
    {Obj(j, m, p, i) :
        j \in {"str:2.0", "str:1.0", "undefined"},
        m \in {"str:ping", "num:7", "undefined"},
        p \in {"undefined", "object", "array", "null", "str:a", "num:7"},
        i \in {"undefined", "null", "str:a", "num:7", "bool:true", "object"}}
    \cup {[t |-> "null"], [t |-> "number"], [t |-> "string"], Arr(<<>>)}

\* failures handed to fromNetworkError(): an own code, the code of a cause,
\* a name and a message, each recognised or not
LibErrorCodes ==
    {"undefined", "ENOTFOUND", "ECONNREFUSED", "ETIMEDOUT", "ECONNRESET", "CERT_HAS_EXPIRED", "EPIPE"}

LibErrors ==
    {[name |-> n, message |-> m, code |-> c, causeCode |-> cc] :
        n \in {"TypeError", "TimeoutError", "Error"},
        m \in {<<"fetch failed">>, <<"certificate has expired">>, <<"socket hang up">>},
        c \in LibErrorCodes,
        cc \in LibErrorCodes}

InitLib == Init /\ headers = NoHeaders

CallParseHeader ==
    /\ call = NoValue
    /\ \E N \in LibNames, V \in LibValues, env \in LibEnvs :
          call' = [fn |-> "parseHeader", form |-> "N: V", N |-> N, V |-> V,
                   headerString |-> N \o <<":", " ">> \o V, env |-> env,
                   result |-> parseHeader(N \o <<":", " ">> \o V, env)]
    /\ UNCHANGED progVars

CallParseHeaderWhole ==
    /\ call = NoValue
    /\ \E h \in LibWholeHeaders, env \in LibEnvs :
          call' = [fn |-> "parseHeader", form |-> "whole", N |-> <<>>, V |-> <<>>,
                   headerString |-> h, env |-> env, result |-> parseHeader(h, env)]
    /\ UNCHANGED progVars

CallParseHeaders ==
    /\ call = NoValue
    /\ \E list \in LibHeaderLists, env \in LibEnvs :
          call' = [fn |-> "parseHeaders", headerStrings |-> list, env |-> env,
                   result |-> parseHeaders(list, env)]
    /\ UNCHANGED progVars

CallMaskSensitiveValue ==
    /\ call = NoValue
    /\ \E name \in MaskNames, value \in MaskValues :
          call' = [fn |-> "maskSensitiveValue", name |-> name, value |-> value,
                   result |-> maskSensitiveValue(name, value)]
    /\ UNCHANGED progVars

CallValidateUrl ==
    /\ call = NoValue
    /\ \E u \in LibUrlArgs : call' = [fn |-> "validateUrl", urlString |-> u, result |-> validateUrl(u)]
    /\ UNCHANGED progVars

CallNormalizeUrl ==
    /\ call = NoValue
    /\ \E u \in LibUrlTexts : call' = [fn |-> "normalizeUrl", urlString |-> u, result |-> normalizeUrl(u)]
    /\ UNCHANGED progVars

CallIsValidRequest ==
    /\ call = NoValue
    /\ \E obj \in LibRequests : call' = [fn |-> "isValidRequest", obj |-> obj, result |-> isValidRequest(obj)]
    /\ UNCHANGED progVars

CallFromNetworkError ==
    /\ call = NoValue
    /\ \E error \in LibErrors, id \in {"undefined", "null", "num:7", "str:a"} :
           call' = [fn |-> "fromNetworkError", error |-> error, id |-> id,
                    result |-> fromNetworkError(error, id)]
    /\ UNCHANGED progVars

NextLib ==
    \/ CallFromNetworkError
    \/ CallParseHeader
    \/ CallParseHeaderWhole
    \/ CallParseHeaders
    \/ CallMaskSensitiveValue
    \/ CallValidateUrl
    \/ CallNormalizeUrl
    \/ CallIsValidRequest

SpecLib == InitLib /\ [][NextLib]_vars

(***************************************************************************)
(* Properties.                                                             *)
(***************************************************************************)
\* the input line the last output line answers
lastSrc == inputLog[output[Len(output)]]

\* the input lines that call for an output line
ProducingIdx(log) == {i \in 1..Len(log) : log[i].kind # "blank" /\ ~IsNotification(log[i])}

Dispatching == mainPc \in {"fetch", "bodyText", "bodyJson"}

IsTimeoutEnvelope(r) ==
    /\ r.kind = "error"
    /\ r.message = "Request timeout"
    /\ r.data.errorCode = "ETIMEDOUT"

\* C1: while start() runs at most one POST is in flight, and a POST is issued
\* only when no dispatch is in progress and every earlier line that calls for
\* an output line has had it written.
C1_OnePostInFlight ==
    /\ [](inflight <= 1)
    /\ [][postCount' > postCount =>
             /\ inflight = 0
             /\ ~Dispatching
             /\ Len(output) = Cardinality(ProducingIdx(inputLog))]_vars

C1_Witness == postCount = 2 /\ inflight = 1 /\ Len(output) = 1

\* C2: the k-th output line answers the k-th input line that is neither blank
\* nor a notification, and each line written is a parse error exactly for a
\* malformed input line, an invalid-request envelope or the dispatch's result
\* otherwise.
C2_OutputOrder ==
    /\ \A k \in 1..Len(output) :
          /\ output[k] \in ProducingIdx(inputLog)
          /\ Cardinality({j \in ProducingIdx(inputLog) : j <= output[k]}) = k
    /\ lastLine # NoValue <=> (Len(output) > 0 /\ output[Len(output)] = Len(inputLog))
    /\ lastLine # NoValue =>
          (lastSrc.kind = "badjson") <=> (lastLine.kind = "error" /\ lastLine.code = PARSE_ERROR)

C2_Witness ==
    /\ Len(inputLog) = 2
    /\ IsNotification(inputLog[1])
    /\ requestCount = 2
    /\ output = <<2>>

\* C3: once a response carried a non-empty Mcp-Session-Id, sessionId is the
\* value received last, every POST issued from then on carries it, and
\* sessionId never returns to null nor holds a value the remote did not send.
C3_SessionIdEchoed ==
    /\ [](sessionId \in {"null", lastRecvSid})
    /\ [](lastRecvSid # "null" => sessionId = lastRecvSid)
    /\ [][sessionId # "null" => sessionId' # "null"]_vars
    /\ [][(postCount' > postCount /\ lastRecvSid # "null") =>
             pendingPost'.headers["Mcp-Session-Id"] = lastRecvSid]_vars

C3_Witness ==
    /\ postCount = 2
    /\ inflight = 1
    /\ headers["Mcp-Session-Id"] = "str:cfg"
    /\ lastRecvSid = "str:s2"
    /\ pendingPost.headers["Mcp-Session-Id"] = "str:s2"

\* C4: no input line terminates the session: processLine() never throws, so
\* the process never leaves through the fatal-error exit of startHttpProxy().
C4_NoLineTerminates == exited # "exit1"

\* C5 as stated: a single message without an id member never gets an output
\* line, whatever the result of shape validation.
C5_NoIdNoOutput == \A k \in 1..Len(output) : ~NoIdObject(inputLog[output[k]])

\* C5 as amended: a shape-valid single message without an id (a notification)
\* never gets an output line, whatever the dispatch's result; a message without
\* an id that fails shape validation gets one -32600 envelope with id null.
C5_NotificationNoOutput ==
    \A i \in 1..Len(inputLog) :
        LET outs == {k \in 1..Len(output) : output[k] = i}
        IN NoIdObject(inputLog[i]) =>
              IF IsNotification(inputLog[i])
              THEN outs = {}
              ELSE /\ Cardinality(outs) = 1
                   /\ (i = Len(inputLog) /\ Len(output) \in outs) =>
                         /\ lastLine.code = INVALID_REQUEST
                         /\ lastLine.id = "null"

C5_Witness ==
    /\ Len(inputLog) = 2
    /\ IsNotification(inputLog[1])
    /\ NoIdObject(inputLog[2]) /\ ~IsNotification(inputLog[2])
    /\ requestCount = 1
    /\ output = <<2>>
    /\ lastLine.code = INVALID_REQUEST

\* C6: a non-blank line that is not valid JSON yields exactly one envelope with
\* code -32700 and id null, no outbound request, and leaves sessionId and
\* requestCount unchanged.
C6_ParseError ==
    [][(inputLog' # inputLog /\ inputLog'[Len(inputLog')].kind = "badjson") =>
          /\ output' = Append(output, Len(inputLog'))
          /\ lastLine'.kind = "error"
          /\ lastLine'.code = PARSE_ERROR
          /\ lastLine'.id = "null"
          /\ postCount' = postCount
          /\ inflight' = inflight
          /\ sessionId' = sessionId
          /\ requestCount' = requestCount]_vars

C6_Witness ==
    /\ Len(inputLog) = 2
    /\ inputLog[2].kind = "badjson"
    /\ sessionId = "str:s1"
    /\ requestCount = 1
    /\ output = <<1, 2>>
    /\ lastLine.code = PARSE_ERROR

\* C7: the -32600 envelope of a single request that fails shape validation
\* carries the id of the request, whatever its value, and null only when the
\* request has no id.
C7_InvalidRequestKeepsId ==
    (/\ Len(output) > 0
     /\ lastSrc.kind = "json"
     /\ lastSrc.value.t = "object"
     /\ lastLine.kind = "error"
     /\ lastLine.code = INVALID_REQUEST) =>
        lastLine.id = (IF lastSrc.value.id = "undefined" THEN "null" ELSE lastSrc.value.id)

\* C8: after stop(), processLine() on any line issues no outbound request,
\* changes no session field and returns no output.
C8_StoppedIsNoOp ==
    [][(~isActive /\ inputLog' # inputLog) =>
          /\ postCount' = postCount
          /\ output' = output
          /\ sessionId' = sessionId
          /\ requestCount' = requestCount
          /\ abortController' = abortController]_vars

\* C9: every dispatch is bounded by the timeout: whenever the deadline has
\* passed and the dispatch still waits for the remote (status, headers or
\* body), the call has been cancelled or its timer is armed to cancel it.
C9_DispatchBounded == (Dispatching /\ deadlinePassed) => (timer = "armed" \/ abortController = "aborted")

\* C10: a dispatch cancelled by stop(), whose own timer did not fire, does not
\* return the timeout envelope.
C10_StopIsNotTimeout ==
    [][(inflight' < inflight /\ abortController = "aborted" /\ timer # "fired") =>
          ~IsTimeoutEnvelope(lastReturn')]_vars

\* the id an envelope for the current line carries: null for a batch and for a
\* message without an id
envelopeId ==
    IF isBatchRequest(curMessage) \/ Member(curMessage, "id") = "undefined"
    THEN "null"
    ELSE Member(curMessage, "id")

\* the current line is a shape-valid single request with an id
ValidRequestWithId ==
    /\ curLine.kind = "json"
    /\ curMessage.t = "object"
    /\ isValidRequest(curMessage).valid
    /\ curMessage.id # "undefined"

\* C11 as stated: every response declaring text/event-stream, whatever its
\* status, returns a -32603 envelope naming the content type, and its body
\* is never read.
C11_EventStreamAnyStatus ==
    (response # NoResponse /\ response.ctype = "str:text/event-stream") =>
        /\ mainPc \notin {"bodyText", "bodyJson"}
        /\ response.body = Unread
        /\ lastReturn.kind = "error"
        /\ lastReturn.code = INTERNAL_ERROR
        /\ lastReturn.data = [contentType |-> response.ctype]

\* C11 as amended: every response with a success status that declares
\* text/event-stream returns a -32603 envelope whose data names the content
\* type and whose id is the request's, and its body is never read; with a
\* non-success status the response is an HTTP error (C12) and its body is read.
C11_EventStreamSuccess ==
    /\ (response # NoResponse /\ Ok(response) /\ response.ctype = "str:text/event-stream") =>
           /\ mainPc \notin {"bodyText", "bodyJson"}
           /\ response.body = Unread
           /\ lastReturn.kind = "error"
           /\ lastReturn.code = INTERNAL_ERROR
           /\ lastReturn.data = [contentType |-> response.ctype]
           /\ lastReturn.id = envelopeId
    /\ (response # NoResponse /\ ~Ok(response) /\ response.ctype = "str:text/event-stream"
            /\ lastReturn # NoValue) =>
           lastReturn.code = HTTP_ERROR

C11_Witness ==
    /\ response # NoResponse
    /\ response.status = 200
    /\ response.ctype = "str:text/event-stream"
    /\ requestCount = 1
    /\ output = <<1>>
    /\ lastLine.kind = "error"
    /\ lastLine.code = INTERNAL_ERROR

C13_RemoteBodyVerbatim ==
    /\ []((response # NoResponse /\ Ok(response) /\ response.body.t = "json" /\ ValidRequestWithId) =>
             /\ Len(output) > 0
             /\ output[Len(output)] = Len(inputLog)
             /\ lastLine = [kind |-> "remote", text |-> response.body])
    /\ [][(inputLog' # inputLog /\ ValidRequestWithId') => postCount' = postCount + 1]_vars
    /\ [][postCount' # postCount => inputLog' # inputLog]_vars

\* the headers object of the POST issued by the step
postHeaders == pendingPost.headers

\* C14 as stated: every POST carries Content-Type: application/json and
\* Accept: application/json together with all configuration headers.
C14_FixedPairAlways ==
    [][postCount' > postCount =>
          /\ postHeaders'["Content-Type"] = "str:application/json"
          /\ postHeaders'["Accept"] = "str:application/json"
          /\ \A n \in HeaderNames : headers[n] # "undefined" => postHeaders'[n] = headers[n]]_vars

\* C14 as amended: every POST carries every configuration header other than
\* Mcp-Session-Id, carries the configured Mcp-Session-Id while no session id
\* is negotiated, and carries Content-Type and Accept application/json for
\* each of the two names the configuration does not define.
C14_PostHeaders ==
    [][postCount' > postCount =>
          /\ \A n \in {"Content-Type", "Accept"} :
                headers[n] = "undefined" => postHeaders'[n] = "str:application/json"
          /\ \A n \in HeaderNames \ {"Mcp-Session-Id"} :
                headers[n] # "undefined" => postHeaders'[n] = headers[n]
          /\ sessionId = "null" => postHeaders'["Mcp-Session-Id"] = headers["Mcp-Session-Id"]]_vars

C14_Witness ==
    /\ postCount = 1
    /\ inflight = 1
    /\ sessionId = "null"
    /\ postHeaders["Content-Type"] = "str:text/plain"
    /\ postHeaders["Accept"] = "str:application/json"
    /\ postHeaders["Authorization"] = "str:tok"
    /\ postHeaders["Mcp-Session-Id"] = "str:cfg"

\* C15: the headers of a POST are layered in the order fixed pair,
\* configuration headers, negotiated session id: a configured Mcp-Session-Id
\* is replaced by the negotiated id once one exists, a configured Content-Type
\* or Accept is never replaced by the fixed pair, and nothing else is sent.
C15_HeaderPriority ==
    [][postCount' > postCount =>
          \A n \in HeaderNames :
              postHeaders'[n] =
                 (IF n = "Mcp-Session-Id" /\ sessionId \notin {"null", "str:"} THEN sessionId
                  ELSE IF headers[n] # "undefined" THEN headers[n]
                  ELSE IF n \in {"Content-Type", "Accept"} THEN "str:application/json"
                  ELSE "undefined")]_vars

C15_Witness ==
    /\ postCount = 2
    /\ inflight = 1
    /\ sessionId = "str:s1"
    /\ headers["Mcp-Session-Id"] = "str:cfg"
    /\ postHeaders["Mcp-Session-Id"] = "str:s1"
    /\ postHeaders["Content-Type"] = "str:text/plain"
    /\ postHeaders["Accept"] = "str:application/json"

\* C16: over the lifetime of a session, also when stop() is called more than
\* once, at most one cleanup DELETE is issued; it is issued only with a
\* negotiated session id and carries only the Mcp-Session-Id header with the
\* current session id.
C16_OneDelete ==
    /\ [](deleteCount <= 1)
    /\ [][deleteCount' > deleteCount =>
             /\ sessionId # "null"
             /\ lastDelete'.headers = [NoHeaders EXCEPT !["Mcp-Session-Id"] = sessionId]]_vars

\* C17: stop() sets isActive to false, which nothing sets again, and completes
\* without raising whatever the outcome of the cleanup DELETE and whether or
\* not a dispatch is in flight: shutdown() goes on to process.exit(0).
C17_StopCompletes ==
    /\ [](stopCalls > 0 => ~isActive)
    /\ [][stopCalls' > stopCalls => ~isActive']_vars
    /\ [][(stopCalls' > stopCalls /\ deleteCount' = deleteCount) => exited' = "exit0"]_vars
    /\ [][pendingDeletes' < pendingDeletes =>
             /\ lastDelete'.outcome \in DeleteOutcomes
             /\ exited' = "exit0"
             /\ ~isActive']_vars

C17_Witness ==
    /\ lastDelete # NoValue
    /\ lastDelete.outcome = "networkError"
    /\ inflight = 1
    /\ mainPc = "bodyText"
    /\ ~isActive
    /\ exited = "exit0"

\* C18: whenever the process ends normally with a negotiated session id, after
\* a termination signal or after the input stream closed, a cleanup DELETE
\* carrying that session id has been sent.
C18_DeleteBeforeExit ==
    (exited = "exit0" /\ sessionId # "null") =>
        /\ deleteCount >= 1
        /\ lastDelete.headers["Mcp-Session-Id"] = sessionId

\* fromArgs() has returned and the session is not yet created
Parsed == startup # NoValue /\ startup.result # NoValue

\* the elements of a list
Range(seq) == {seq[i] : i \in 1..Len(seq)}

\* C19: fromArgs() returns a config exactly when its errors list is empty,
\* and when it returns errors startHttpProxy() exits with code 1 having
\* created no session, issued no HTTP request and written no output line.
C19_FailsClosed ==
    /\ [](Parsed => ((startup.result.config # NoValue) <=> (startup.result.errors = <<>>)))
    /\ []((Parsed /\ startup.result.errors # <<>>) =>
             /\ ~SessionCreated
             /\ postCount = 0
             /\ deleteCount = 0
             /\ inputLog = <<>>
             /\ output = <<>>)
    /\ [][(Parsed /\ startup.result.errors # <<>>) => exited' = "exit1"]_vars

C19_Witness ==
    /\ Parsed
    /\ validateUrl(startup.args.url).valid
    /\ Len(startup.result.errors) = 1
    /\ startup.result.config = NoValue
    /\ exited = "exit1"

\* C20: the errors list of fromArgs() holds the hard error of the endpoint
\* and of every invalid header string, and its warnings list every warning
\* of the endpoint and of the headers, whether or not construction succeeds.
C20_ReportsEverything ==
    Parsed =>
        LET args == startup.args
            env == startup.env
            result == startup.result
            urlResult == validateUrl(args.url)
        IN /\ ~urlResult.valid => urlResult.error \in Range(result.errors)
           /\ \A i \in 1..Len(args.headers) :
                 ~parseHeader(args.headers[i], env).success =>
                     parseHeader(args.headers[i], env).error \in Range(result.errors)
           /\ urlResult.valid => Range(urlResult.warnings) \subseteq Range(result.warnings)
           /\ Range(parseHeaders(args.headers, env).warnings) \subseteq Range(result.warnings)

\* characters that are not part of an HTTP token, among them the space, the
\* colon and the control characters the inputs use
NotTokenChars ==
    {" ", ":", "\t", "\r", "\n", "(", ")", ",", "/", ";", "<", "=", ">", "?", "@", "[", "]", "{", "}"}

\* C21: every configuration fromArgs() returns has an http or https endpoint
\* with a non-empty host, header names that are non-empty and free of
\* non-token characters, header values free of CR and LF, and a positive
\* timeout: the supplied one when that is a positive number, 60000 otherwise.
C21_ConfigValid ==
    (Parsed /\ startup.result.config # NoValue) =>
        LET c == startup.result.config
            t == startup.args.timeout
        IN /\ c.url.ok
           /\ c.url.protocol \in {"http:", "https:"}
           /\ c.url.hostname # ""
           /\ \A i \in 1..Len(c.headers) :
                 /\ c.headers[i].name # <<>>
                 /\ \A j \in 1..Len(c.headers[i].name) : c.headers[i].name[j] \notin NotTokenChars
                 /\ \A j \in 1..Len(c.headers[i].value) : c.headers[i].value[j] \notin {"\r", "\n"}
           /\ c.timeout > 0
           /\ c.timeout = (IF t.t = "number" /\ t.n > 0 THEN t.n ELSE 60000)

C21_Witness ==
    /\ Parsed
    /\ startup.result.config # NoValue
    /\ startup.args.timeout = Num(0)
    /\ startup.result.config.timeout = 60000
    /\ Len(startup.result.config.headers) = 1
    /\ startup.result.config.url.protocol = "http:"

\* C22: from the creation of the session on, no step of buildRequestHeaders(),
\* sendRequest(), processLine(), start() or stop() changes the url, headers,
\* timeout or debug of the configuration.
C22_ConfigUnchanged ==
    [][SessionCreated => (config' = config /\ headers' = headers)]_vars

C22_Witness ==
    /\ config # NoValue
    /\ config.timeout = 5000
    /\ config.url.protocol = "http:"
    /\ headers["Authorization"] = "str:tok"
    /\ headers["Mcp-Session-Id"] = "undefined"
    /\ sessionId = "str:s1"
    /\ postCount = 2
    /\ pendingPost # NoValue
    /\ pendingPost.headers["Mcp-Session-Id"] = "str:s1"
    /\ deleteCount = 1

\* the library function fn has been called
Called(fn) == call # NoValue /\ call.fn = fn

\* a non-empty text of token characters
IsToken(name) == name # <<>> /\ \A i \in 1..Len(name) : name[i] \notin NotTokenChars

HasCRLF(value) == \E i \in 1..Len(value) : value[i] \in {"\r", "\n"}

\* parseHeader() was called on "N: V" with a valid name N and a value V
\* without a variable reference
PlainHeaderParsed ==
    /\ Called("parseHeader")
    /\ call.form = "N: V"
    /\ IsToken(call.N)
    /\ ~hasEnvVar(call.V)

\* C23 as stated: for "N: V" with a valid name and no variable reference in V,
\* parseHeader() succeeds and returns V as the value, also when V has leading
\* or trailing whitespace.
C23_ValueIdentity ==
    PlainHeaderParsed =>
        /\ call.result.success
        /\ call.result.header.value = call.V

\* C23 as amended: for "N: V" with a valid name and no variable reference in V,
\* parseHeader() succeeds exactly when V without its leading and trailing
\* whitespace contains no CR or LF, and then returns the name N and that
\* trimmed V as the value.
C23_ValueTrimmed ==
    PlainHeaderParsed =>
        /\ call.result.success <=> ~HasCRLF(trimEnd(trimStart(call.V)))
        /\ call.result.success =>
              /\ call.result.header.name = call.N
              /\ call.result.header.value = trimEnd(trimStart(call.V))

C23_Witness ==
    /\ PlainHeaderParsed
    /\ call.V = <<" ", "a", " ">>
    /\ call.result.success
    /\ call.result.header.value = <<"a">>

\* C24: for a valid name N and an environment without K, parseHeaders() on
\* the one string "N: $K" or "N: ${K}" records no error, stores N with the
\* empty string as its value and records exactly one warning, which names N.
C24_MissingVarWarns ==
    \A N \in LibNames, ref \in {<<"$", "K">>, <<"$", "{", "K", "}">>} :
        (/\ Called("parseHeaders")
         /\ IsToken(N)
         /\ call.headerStrings = <<N \o <<":", " ">> \o ref>>
         /\ <<"K">> \notin DOMAIN call.env) =>
            /\ call.result.errors = <<>>
            /\ call.result.headers = <<[name |-> N, value |-> <<>>]>>
            /\ Len(call.result.warnings) = 1
            /\ call.result.warnings[1].of = N

C24_Witness ==
    /\ Called("parseHeaders")
    /\ call.headerStrings = <<<<"X", ":", " ", "$", "{", "K", "}">>>>
    /\ call.env = <<>>
    /\ call.result.errors = <<>>
    /\ Len(call.result.warnings) = 1
    /\ call.result.headers[1].value = <<>>

\* the result of parseHeader() on entry i of the list handed to parseHeaders()
entryResult(i) == parseHeader(call.headerStrings[i], call.env)

\* the entries of the list that parse
ParsedEntries == {i \in 1..Len(call.headerStrings) : entryResult(i).success}

\* the last entry of the list that parses to the name of entry i
lastOfName(i) ==
    CHOOSE j \in ParsedEntries :
        /\ entryResult(j).header.name = entryResult(i).header.name
        /\ \A k \in ParsedEntries : entryResult(k).header.name = entryResult(i).header.name => k <= j

\* C25: parseHeaders() goes through the whole list: it records one error for
\* each entry that fails to parse, stores the name of every entry that parses,
\* each name once and with the value of the last entry of that name, and
\* stores nothing else.
C25_AllEntriesProcessed ==
    Called("parseHeaders") =>
        LET stored == call.result.headers
        IN /\ Len(call.result.errors) = Len(call.headerStrings) - Cardinality(ParsedEntries)
           /\ \A i \in ParsedEntries :
                 \E k \in 1..Len(stored) :
                     /\ stored[k].name = entryResult(i).header.name
                     /\ stored[k].value = entryResult(lastOfName(i)).header.value
           /\ \A k \in 1..Len(stored) :
                 /\ \E i \in ParsedEntries : stored[k].name = entryResult(i).header.name
                 /\ \A m \in 1..Len(stored) : stored[m].name = stored[k].name => m = k

C25_Witness ==
    /\ Called("parseHeaders")
    /\ call.headerStrings = <<<<"X", ":", " ", "1">>, <<"B", "a", "d">>, <<"X", ":", " ", "2">>>>
    /\ Len(call.result.errors) = 1
    /\ call.result.headers = <<[name |-> <<"X">>, value |-> <<"2">>]>>

\* C26: parseHeader() never returns a header whose value contains CR or LF; a
\* failed call returns an error and no header; and for "N: V" with a valid
\* name, when V trimmed and expanded against the environment contains CR or
\* LF the call fails with the forbidden-characters error, also when the CR or
\* LF comes from the value of a variable.
C26_CRLFRejected ==
    Called("parseHeader") =>
        /\ call.result.success => ~HasCRLF(call.result.header.value)
        /\ ~call.result.success => DOMAIN call.result = {"success", "error"}
        /\ (/\ call.form = "N: V"
            /\ IsToken(call.N)
            /\ HasCRLF(expandEnvVars(trimEnd(trimStart(call.V)), call.env))) =>
               /\ ~call.result.success
               /\ call.result.error.msg = "Invalid header value: contains forbidden characters (CRLF)"

C26_Witness ==
    /\ Called("parseHeader")
    /\ call.form = "N: V"
    /\ call.N = <<"X">>
    /\ call.V = <<"a", "$", "K">>
    /\ <<"K">> \in DOMAIN call.env
    /\ call.env[<<"K">>] = <<"a", "\r", "b">>
    /\ ~call.result.success
    /\ call.result.error.msg = "Invalid header value: contains forbidden characters (CRLF)"

\* the texts the fixed mask token contains
PartsOfMask == {<<>>, <<"*">>, <<"*", "*">>, <<"*", "*", "*">>}

\* what C27 says of the result apart from its not showing the value
MaskShape ==
    IF toLowerCase(call.name) \in sensitiveHeaders
    THEN /\ Len(call.value) <= 12 => call.result = <<"*", "*", "*">>
         /\ Len(call.value) > 12 =>
               call.result = SubSeq(call.value, 1, 4) \o <<"*", "*", "*">>
                             \o SubSeq(call.value, Len(call.value) - 3, Len(call.value))
    ELSE call.result = call.value

\* C27 as stated: for a sensitive name, in any letter case, the result is '***'
\* for a value of at most 12 characters and otherwise its first 4 characters,
\* '***' and its last 4 characters, and never contains the full value; for
\* any other name it is the value.
C27_MaskNeverShows ==
    Called("maskSensitiveValue") =>
        /\ MaskShape
        /\ toLowerCase(call.name) \in sensitiveHeaders => ~includes(call.result, call.value)

\* C27 as amended: the same, except that the result contains the full value
\* exactly when the value is empty or made of one to three asterisks, the
\* values the mask token itself contains.
C27_MaskShows ==
    Called("maskSensitiveValue") =>
        /\ MaskShape
        /\ toLowerCase(call.name) \in sensitiveHeaders =>
              (includes(call.result, call.value) <=> call.value \in PartsOfMask)

C27_Witness ==
    /\ Called("maskSensitiveValue")
    /\ call.name = <<"X", "-", "A", "U", "T", "H", "-", "T", "O", "K", "E", "N">>
    /\ Len(call.value) = 13
    /\ call.result = <<"B", "e", "a", "r", "*", "*", "*", "p", "_", "1", "2">>

\* the result of validateUrl() lists a warning with this message
HasWarning(msg) == \E i \in 1..Len(call.result.warnings) : call.result.warnings[i].msg = msg

\* 1 for a condition that holds, 0 otherwise
Count(cond) == IF cond THEN 1 ELSE 0

\* C28: validateUrl() returns valid exactly for a string that parses as a URL
\* with scheme http or https, a non-empty host and a port that, if present, is
\* numeric; the error for another scheme names that scheme; and a valid result
\* carries a warning for surrounding whitespace, for http to a host other than
\* localhost, 127.0.0.1, ::1 and [::1], and for user-info, exactly when each
\* applies, and no other warning.
C28_ValidateUrl ==
    Called("validateUrl") =>
        LET u == call.urlString
            url == call.urlString.parsed
            r == call.result
        IN /\ r.valid <=>
                 /\ u.type = "string"
                 /\ url.ok
                 /\ url.protocol \in {"http:", "https:"}
                 /\ url.hostname # ""
                 /\ \A i \in 1..Len(url.port) : url.port[i] \in Digit
           /\ (u.type = "string" /\ url.ok /\ url.protocol \notin {"http:", "https:"}) =>
                 /\ r.error.msg = "Invalid protocol"
                 /\ r.error.of = <<url.protocol>>
           /\ r.valid =>
                 /\ r.url = url
                 /\ HasWarning("URL contained leading/trailing whitespace") <=> u.padded
                 /\ HasWarning("Using insecure HTTP for non-localhost URL") <=>
                       /\ url.protocol = "http:"
                       /\ url.hostname \notin {"localhost", "127.0.0.1", "::1", "[::1]"}
                 /\ HasWarning("URL contains credentials") <=>
                       (url.username # "" \/ url.password # "")
                 /\ Len(r.warnings) =
                       Count(u.padded)
                       + Count(url.protocol = "http:"
                               /\ url.hostname \notin {"localhost", "127.0.0.1", "::1", "[::1]"})
                       + Count(url.username # "" \/ url.password # "")

C28_Witness ==
    /\ Called("validateUrl")
    /\ call.urlString = UrlPaddedHttpUser
    /\ call.result.valid
    /\ Len(call.result.warnings) = 3

\* C29: normalizeUrl() applied to its own result returns that result, and the
\* result shows no port 80 for http and no port 443 for https.
C29_NormalizeIdempotent ==
    Called("normalizeUrl") =>
        /\ normalizeUrl(call.result) = call.result
        /\ ~(call.result.scheme = <<"h", "t", "t", "p">> /\ stripZeros(call.result.port) = <<"8", "0">>)
        /\ ~(call.result.scheme = <<"h", "t", "t", "p", "s">> /\ stripZeros(call.result.port) = <<"4", "4", "3">>)

C29_Witness ==
    /\ Called("normalizeUrl")
    /\ call.urlString = UrlText(<<"H", "T", "T", "P">>, <<"A", ".", "I", "O">>, <<"0", "8", "0">>, <<>>)
    /\ call.result = UrlText(<<"h", "t", "t", "p">>, <<"a", ".", "i", "o">>, <<>>, <<"/">>)

\* C30: isValidRequest() returns valid exactly for an object whose jsonrpc is
\* "2.0", whose method is a string, whose params is absent, an object or an
\* array (not null), and whose id is absent, a string, a number or null.
C30_ValidExactly ==
    Called("isValidRequest") =>
        (call.result.valid <=>
            /\ call.obj.t = "object"
            /\ call.obj.jsonrpc = "str:2.0"
            /\ call.obj.method \in StrVals
            /\ call.obj.params \in {"undefined", "object", "array"}
            /\ call.obj.id \in {"undefined", "null"} \cup StrVals \cup NumVals)

\* the classes of failure a failure value shows by its own code, by the code
\* of its cause, by its name or by its message
FailureClasses(error) ==
    LET has(c) == error.code = c \/ error.causeCode = c
    IN  (IF has("ENOTFOUND") THEN {"DNS resolution failed"} ELSE {})
        \cup (IF has("ECONNREFUSED") THEN {"Connection refused"} ELSE {})
        \cup (IF has("ETIMEDOUT") \/ error.name = "TimeoutError" THEN {"Request timeout"} ELSE {})
        \cup (IF has("ECONNRESET") THEN {"Connection reset"} ELSE {})
        \cup (IF has("CERT_HAS_EXPIRED") \/ error.message \in CertificateMessages
              THEN {"SSL/TLS certificate error"} ELSE {})

\* C31: for every failure value fromNetworkError returns an envelope with
\* code -32000 and the given id (null when none is given), with the failure's
\* message attached as data; the envelope's message names a class of failure
\* the value shows (DNS, refusal, timeout, reset, certificate) whenever it
\* shows one, and is the generic 'Network error' exactly when it shows none.
C31_NetworkErrorClassified ==
    Called("fromNetworkError") =>
        LET classes == FailureClasses(call.error)
        IN  /\ call.result.kind = "error"
            /\ call.result.code = TRANSPORT_ERROR
            /\ call.result.id = (IF call.id = "undefined" THEN "null" ELSE call.id)
            /\ call.result.data.originalError = call.error.message
            /\ IF classes = {} THEN call.result.message = "Network error"
                              ELSE call.result.message \in classes

\* the current input line holds a JSON array
BatchLine == Len(inputLog) > 0 /\ curLine.kind = "json" /\ isBatchRequest(curMessage)

\* C32: an empty array yields a -32600 envelope with id null and no POST; a
\* non-empty array is sent whole in exactly one POST, even when an element
\* fails shape validation, and an error envelope made for it has id null.
C32_Batch ==
    /\ [][(inputLog' # inputLog /\ BatchLine' /\ Len(curMessage'.items) = 0) =>
             /\ postCount' = postCount
             /\ UNCHANGED pendingPost
             /\ output' = Append(output, Len(inputLog'))
             /\ lastLine' = JSONstringify(invalidRequest("null", "Empty batch"))
             /\ lastLine'.code = INVALID_REQUEST
             /\ lastLine'.id = "null"]_vars
    /\ [][(inputLog' # inputLog /\ BatchLine' /\ Len(curMessage'.items) > 0) =>
             /\ postCount' = postCount + 1
             /\ pendingPost'.body = curMessage'
             /\ UNCHANGED output]_vars
    /\ [][(inputLog' = inputLog /\ BatchLine) => postCount' = postCount]_vars
    /\ []((BatchLine /\ lastLine # NoValue /\ lastLine.kind = "error") => lastLine.id = "null")

C32_Witness ==
    /\ BatchLine
    /\ \E i \in 1..Len(curMessage.items) : ~isValidRequest(curMessage.items[i]).valid
    /\ postCount = 1
    /\ requestCount = 1
    /\ lastLine # NoValue
    /\ lastLine.kind = "error"
    /\ lastLine.code = HTTP_ERROR

\* the current input line is a shape-valid notification
NotificationLine == Len(inputLog) > 0 /\ IsNotification(curLine)

\* C33: a shape-valid notification is dispatched in exactly one POST, and no
\* outcome of that dispatch (success, HTTP error status, streaming response,
\* network failure, timeout) makes processLine() return a line.
C33_NotificationDispatched ==
    /\ [][(inputLog' # inputLog /\ NotificationLine') =>
             /\ postCount' = postCount + 1
             /\ pendingPost'.body = curMessage'
             /\ UNCHANGED output]_vars
    /\ [][(inputLog' = inputLog /\ NotificationLine) =>
             /\ postCount' = postCount
             /\ UNCHANGED output]_vars
    /\ [](NotificationLine => lastLine = NoValue)
    /\ [][(NotificationLine /\ inflight' < inflight) =>
             /\ lastReturn'.kind \in {"remote", "error"}
             /\ lastLine' = NoValue]_vars

C33_Witness ==
    /\ NotificationLine
    /\ postCount = 1
    /\ inflight = 0
    /\ lastReturn # NoValue
    /\ IsTimeoutEnvelope(lastReturn)
    /\ output = <<>>
    /\ lastLine = NoValue

\* C34: requestCount never decreases and, whenever no dispatch is in flight,
\* equals the number of POSTs the session has dispatched, those that ended
\* in a network failure or a timeout included.
C34_RequestCountIsPosts ==
    /\ [][requestCount' >= requestCount]_vars
    /\ [](inflight = 0 => requestCount = postCount)

\* C35: isActive is true from creation until stop() is called or the input
\* stream closes, is false once either has happened, and once false never
\* becomes true again.
C35_ActiveUntilStopOrClose ==
    /\ []((stopCalls = 0 /\ mainPc # "done") => isActive)
    /\ [](stopCalls > 0 => ~isActive)
    /\ [](mainPc = "done" => ~isActive)
    /\ [][~isActive => ~isActive']_vars

\* C36: on a termination signal the session is inactive and the dispatch in
\* flight, if any, is signalled to abort by the time the cleanup DELETE is
\* issued; the process exits only when a stop() has completed, which is after
\* its DELETE, if it issued one, has settled.
C36_ShutdownOrder ==
    /\ [][stopCalls' > stopCalls =>
             /\ ~isActive'
             /\ abortController' # "live"
             /\ (inflight > 0 => abortController' = "aborted")]_vars
    /\ [][deleteCount' > deleteCount =>
             /\ stopCalls' > stopCalls
             /\ exited' = "running"]_vars
    /\ []((deleteCount > 0 /\ inflight > 0) => abortController = "aborted")
    /\ [][(exited = "running" /\ exited' # "running" /\ stopCalls' > 0) =>
             /\ ~isActive'
             /\ abortController' # "live"
             /\ \/ stopCalls' > stopCalls /\ deleteCount' = deleteCount
                \/ pendingDeletes' < pendingDeletes /\ lastDelete'.outcome \in DeleteOutcomes]_vars

C36_Witness ==
    /\ exited = "exit0"
    /\ stopCalls = 1
    /\ deleteCount = 1
    /\ pendingDeletes = 0
    /\ lastDelete.outcome = "ok"
    /\ mainPc = "fetch"
    /\ abortController = "aborted"

\* C37: under start() the cancellation handle is non-null exactly while a
\* dispatch is in flight; sendRequest() creates one handle and arms one timer
\* on entry, every return of it leaves the timer cleared and the handle null,
\* and a timer fires only while its dispatch is in flight.
C37_HandleWhileInFlight ==
    /\ [](abortController # "null" <=> Dispatching)
    /\ [](Dispatching <=> inflight = 1)
    /\ [](~Dispatching => timer = "none")
    /\ [][postCount' > postCount =>
             /\ abortController = "null"
             /\ abortController' = "live"
             /\ timer = "none"
             /\ timer' = "armed"]_vars
    /\ [][inflight' < inflight =>
             /\ timer' = "none"
             /\ abortController' = "null"]_vars
    /\ [][(timer' = "fired" /\ timer # "fired") =>
             /\ timer = "armed"
             /\ Dispatching
             /\ abortController # "null"]_vars

C37_Witness ==
    /\ postCount = 2
    /\ inflight = 0
    /\ IsTimeoutEnvelope(lastReturn)
    /\ timer = "none"
    /\ abortController = "null"
    /\ output = <<1, 2>>

\* C38: sessionId changes only when a response is received that carries a
\* non-empty Mcp-Session-Id different from the current value; such a value is
\* adopted whatever the response's status and content type, a later value
\* replacing an earlier one; a response without the header, a network failure,
\* a timeout and every other step leave sessionId unchanged.
C38_SessionIdFrame ==
    /\ [][sessionId' # sessionId =>
             /\ requestCount' = requestCount + 1
             /\ mainPc = "fetch"
             /\ sessionId' = lastRecvSid'
             /\ sessionId' \notin {"null", "str:", "undefined"}]_vars
    /\ [][(requestCount' > requestCount /\ lastRecvSid' # lastRecvSid) =>
             sessionId' = lastRecvSid']_vars
    /\ [][(requestCount' > requestCount /\ lastRecvSid' = lastRecvSid) =>
             sessionId' = sessionId]_vars
    /\ [][requestCount' = requestCount => sessionId' = sessionId]_vars
    /\ [](lastRecvSid # "null" => sessionId = lastRecvSid)

C38_Witness ==
    /\ requestCount = 2
    /\ mainPc = "bodyText"
    /\ response.status = 401
    /\ sessionId = "str:s2"
    /\ pendingPost.headers["Mcp-Session-Id"] = "str:s1"

\* C39: once stop() has been called, start() processes no further input
\* line and dispatches no POST; the only output line still written is the
\* one of the dispatch that was in flight when stop() was called.
C39_NoDispatchAfterStop ==
    /\ [][stopCalls > 0 =>
             /\ postCount' = postCount
             /\ inputLog' = inputLog
             /\ inflight' <= inflight]_vars
    /\ [][(stopCalls > 0 /\ output' # output) =>
             /\ inflight = 1
             /\ inflight' = 0
             /\ abortController = "aborted"
             /\ output' = Append(output, Len(inputLog))]_vars
    /\ []((stopCalls > 0 /\ mainPc = "done") => inflight = 0)

C39_Witness ==
    /\ stopCalls = 1
    /\ mainPc = "done"
    /\ exited = "running"
    /\ pendingDeletes = 1
    /\ postCount = 1
    /\ Len(inputLog) = 1
    /\ output = <<1>>
    /\ IsTimeoutEnvelope(lastReturn)

====
